---- MODULE Spec2Model ----
(***************************************************************************)
(* State-machine model of the salesforce-ai-quiz scripts:                  *)
(*   - the quiz front end (streamlit_app.py): session state and the        *)
(*     button / form handlers;                                             *)
(*   - the report scripts (Salesforce_Question/analyze_undecided_*.py);    *)
(*   - the preprocessing pipeline (preprocess_exam_data.py);               *)
(*   - the glossary merge (merge_glossaries.py);                           *)
(*   - the index builder (vectorize_documents.py).                         *)
(* Each script is an independent entry point, so each has its own          *)
(* specification over the shared variable list; the variables of the       *)
(* other scripts stay at their idle values.                                *)
(***************************************************************************)
EXTENDS Integers, Sequences, FiniteSets, TLC

VARIABLES
    \* ---- streamlit_app.py: st.session_state ----
    \* (its key 'stats' is written by the result view only and read by no
    \* handler; it is not part of the state followed here)
    page, history, current_index, answer_submitted, user_answers,
    answered_ids, wrong_answer_ids, is_review_mode, review_history,
    all_user_answers,
    \* exception raised by the last quiz handler ("none" when it returned)
    quiz_exc,
    \* observation of the last handler that ran, and of what the user submitted
    last, submitted,
    \* ---- analyze_undecided_questions.py / _bk.py: one run of a script ----
    \* the file OUTPUT_FILE on disk
    report_file,
    \* which script's main is running, and where it is
    ana_script, ana_pc,
    \* main's locals: the questions handed to gather, their tasks, the semaphore
    questions_to_analyze, ana_tasks, semaphore,
    \* how the last run ended
    ana_outcome,
    \* observation: the ids whose section a run wrote into the report on disk
    ana_written,
    \* ---- preprocess_exam_data.py: runs of main_async ----
    \* the questions of EXAM_QUESTIONS_FILE, in file order (never written)
    exam_questions,
    \* the file OUTPUT_PROCESSED_FILE on disk
    output_file,
    \* where main_async is, and how its last run ended
    pre_pc, pre_outcome,
    \* main_async's locals
    processed_questions_dict, questions_to_process, pre_tasks,
    \* observation: what the run has done outside the process so far
    \* ("generate": a generative call, "embed": an embedding call, "write":
    \* the output file was written)
    pre_effects,
    \* ---- preprocess_exam_data.py: one call of hybrid_search_async ----
    \* where the call is ("idle", "embedding", "returned", "raised")
    hs_pc,
    \* its arguments bm25_top_n and final_top_k
    hs_args,
    \* its locals
    bm25_scores, bm25_top_indices, bm25_candidates,
    faiss_top_indices, vector_candidates,
    \* the list it returned
    hs_result,
    \* observation: the call of the try block that raised ("none" if none did)
    hs_failed,
    \* ---- preprocess_exam_data.py: one call of ----
    \* ---- select_and_verify_docs_with_ai_async ----
    \* where the call is ("idle", "calling", "returned", "raised")
    sv_pc,
    \* generate_content_with_retry's loop variable
    attempt,
    \* the text generate_content_with_retry returned (<<>> when it returned none)
    response_text,
    \* the value select_and_verify_docs_with_ai_async returned
    sv_result,
    \* observation: what the model was made to answer on the last attempt, and
    \* the message of the exception the function caught ("none" if none)
    sv_given, sv_exception,
    \* ---- preprocess_exam_data.py: one call of translate_explanation_async ----
    \* where the call is ("idle", "calling", "returned", "raised")
    tr_pc,
    \* its argument explanation, and the value it returned
    tr_explanation, tr_result,
    \* generate_content_with_retry's loop variable
    tr_attempt,
    \* observation: how each call of model.generate_content_async ended, in
    \* the order of the calls
    tr_calls,
    \* ---- vectorize_documents.py: runs of the main block ----
    \* where the run is ("idle", "embedding", "writing_bm25", "writing_faiss",
    \* "saving_chunks"), and how the last run ended
    vz_pc, vz_outcome,
    \* vectorize_chunks' loop variable i and local vectors, and the pair it
    \* returned
    vz_i, vz_vectors, vz_valid,
    \* the files BM25_INDEX_FILE, FAISS_INDEX_FILE and TEXT_CHUNKS_FILE on disk
    bm25_index_file, faiss_index_file, text_chunks_file,
    \* ---- merge_glossaries.py: one run of main ----
    \* the files of INPUT_FILES on disk, in the order of the list
    glossary_files,
    \* where main is ("idle", "merging", "done") and the position of its loop
    \* over INPUT_FILES
    mg_pc, mg_file,
    \* main's locals
    merged_terms, seen_en_terms,
    \* the file OUTPUT_FILE on disk
    master_glossary

quizState == <<page, history, current_index, answer_submitted, user_answers,
               answered_ids, wrong_answer_ids, is_review_mode, review_history,
               all_user_answers>>

quizVars == <<page, history, current_index, answer_submitted, user_answers,
              answered_ids, wrong_answer_ids, is_review_mode, review_history,
              all_user_answers, quiz_exc, last, submitted>>

anaVars == <<report_file, ana_script, ana_pc, questions_to_analyze, ana_tasks,
             semaphore, ana_outcome, ana_written>>

preVars == <<exam_questions, output_file, pre_pc, pre_outcome,
             processed_questions_dict, questions_to_process, pre_tasks, pre_effects>>

hsVars == <<hs_pc, hs_args, bm25_scores, bm25_top_indices, bm25_candidates,
            faiss_top_indices, vector_candidates, hs_result, hs_failed>>

svVars == <<sv_pc, attempt, response_text, sv_result, sv_given, sv_exception>>

mgVars == <<glossary_files, mg_pc, mg_file, merged_terms, seen_en_terms, master_glossary>>

trVars == <<tr_pc, tr_explanation, tr_result, tr_attempt, tr_calls>>

vzVars == <<vz_pc, vz_outcome, vz_i, vz_vectors, vz_valid,
            bm25_index_file, faiss_index_file, text_chunks_file>>

vars == <<quizVars, anaVars, preVars, hsVars, svVars, mgVars, trVars, vzVars>>

\* What a step of one script (or of one function followed on its own) leaves
\* alone: the variables of the others.
notQuiz == <<anaVars, preVars, hsVars, svVars, mgVars, trVars, vzVars>>
notAna == <<quizVars, preVars, hsVars, svVars, mgVars, trVars, vzVars>>
notPre == <<quizVars, anaVars, hsVars, svVars, mgVars, trVars, vzVars>>
notHs == <<quizVars, anaVars, preVars, svVars, mgVars, trVars, vzVars>>
notSv == <<quizVars, anaVars, preVars, hsVars, mgVars, trVars, vzVars>>
notMg == <<quizVars, anaVars, preVars, hsVars, svVars, trVars, vzVars>>
notTr == <<quizVars, anaVars, preVars, hsVars, svVars, mgVars, vzVars>>
notVz == <<quizVars, anaVars, preVars, hsVars, svVars, mgVars, trVars>>

----------------------------------------------------------------------------
(* Generic helpers *)

Range(s) == {s[i] : i \in 1..Len(s)}

\* All orderings of a finite set, as sequences without repetition.
Orderings(S) ==
    {s \in [1..Cardinality(S) -> S] : \A i, j \in 1..Cardinality(S) : i # j => s[i] # s[j]}

\* Python's list.index(x), 0-based (x is in s).
IndexOf(s, x) == (CHOOSE i \in 1..Len(s) : s[i] = x /\ \A j \in 1..(i-1) : s[j] # x) - 1

----------------------------------------------------------------------------
(* streamlit_app.py: the question bank *)

\* Number of questions in the loaded exam file.
NumQuestions == 2

QuestionIds == 1..NumQuestions

NoQuestion == 0

\* sorted(choices.keys()) of every question.
choice_keys == <<"A", "B", "C">>

\* Code-point order of the key strings that occur ("" sorts first).
KeyRank(k) == CASE k = "" -> 0 [] k = "A" -> 1 [] k = "B" -> 2 [] k = "C" -> 3 [] OTHER -> 4

\* The raw correct_answer field of question q, one character per element.
correct_answer_field(q) ==
    CASE q % 3 = 1 -> <<"B">>
      [] q % 3 = 2 -> <<"C", ",", " ", "A">>
      [] OTHER     -> <<"A", ",", "B">>

\* str.replace(" ", "")
RemoveSpaces(s) == SelectSeq(s, LAMBDA c : c # " ")

IsWhitespace(c) == c \in {" ", "\n", "\t"}

RECURSIVE LStrip(_)
LStrip(s) == IF s # <<>> /\ IsWhitespace(Head(s)) THEN LStrip(Tail(s)) ELSE s

RECURSIVE RStrip(_)
RStrip(s) == IF s # <<>> /\ IsWhitespace(s[Len(s)]) THEN RStrip(SubSeq(s, 1, Len(s) - 1)) ELSE s

\* str.strip()
Strip(s) == RStrip(LStrip(s))

\* str.split(','): the pieces between the commas, as character sequences.
RECURSIVE SplitComma(_, _)
SplitComma(s, cur) ==
    IF s = <<>> THEN <<cur>>
    ELSE IF Head(s) = "," THEN <<cur>> \o SplitComma(Tail(s), <<>>)
    ELSE SplitComma(Tail(s), Append(cur, Head(s)))

\* The string spelled by a character sequence.
RECURSIVE Join(_)
Join(cs) == IF cs = <<>> THEN "" ELSE Head(cs) \o Join(Tail(cs))

\* Insert key k into the sorted list s.
RECURSIVE InsertSorted(_, _)
InsertSorted(k, s) ==
    IF s = <<>> THEN <<k>>
    ELSE IF KeyRank(k) <= KeyRank(Head(s)) THEN <<k>> \o s
    ELSE <<Head(s)>> \o InsertSorted(k, Tail(s))

\* sorted(list of keys)
RECURSIVE Sorted(_)
Sorted(s) == IF s = <<>> THEN <<>> ELSE InsertSorted(Head(s), Sorted(Tail(s)))

\* sorted([key.strip() for key in correct_answer.replace(" ", "").split(',')])
correct_answers(q) ==
    LET pieces == SplitComma(RemoveSpaces(correct_answer_field(q)), <<>>)
    IN  Sorted([i \in 1..Len(pieces) |-> Join(Strip(pieces[i]))])

num_correct_answers(q) == Len(correct_answers(q))

is_multiple_choice(q) == num_correct_answers(q) > 1

\* sorted([k for k, v in user_selections.items() if v]) for the ticked boxes sel.
SelectedKeys(sel) == SelectSeq(choice_keys, LAMBDA k : k \in sel)

----------------------------------------------------------------------------
(* streamlit_app.py: session state and handlers *)

NoOp == [op |-> "none", q |-> NoQuestion, sel |-> {}, at |-> -1]

\* Session initialisation (the defaults written when a key is missing).
QuizInit ==
    /\ page = "start"
    /\ history = <<>>
    /\ current_index = -1
    /\ answer_submitted = FALSE
    /\ user_answers = <<>>
    /\ answered_ids = {}
    /\ wrong_answer_ids = {}
    /\ is_review_mode = FALSE
    /\ review_history = <<>>
    /\ all_user_answers = <<>>
    /\ quiz_exc = "none"
    /\ last = NoOp
    /\ submitted = [q \in QuestionIds |-> <<>>]

\* dict.get(q_id, []) on all_user_answers (a function from ids to lists).
AllUserAnswersGet(q_id) ==
    IF q_id \in DOMAIN all_user_answers THEN all_user_answers[q_id] ELSE <<>>

active_list == IF is_review_mode THEN review_history ELSE history

\* The id of the question shown, or NoQuestion where the code returns None.
get_current_question ==
    IF current_index = -1 THEN NoQuestion
    ELSE IF active_list = <<>> \/ current_index >= Len(active_list) THEN NoQuestion
    ELSE IF active_list[current_index + 1] \in QuestionIds
         THEN active_list[current_index + 1] ELSE NoQuestion

\* A jump that appends the id to the history without looking for it there.
go_to_question_by_id_always_appends(q_id) ==
    LET new_history == Append(history, q_id)
    IN  /\ page' = "quiz"
        /\ is_review_mode' = FALSE
        /\ answer_submitted' = (q_id \in answered_ids)
        /\ history' = new_history
        /\ current_index' = IndexOf(new_history, q_id)
        /\ user_answers' = AllUserAnswersGet(q_id)
        /\ quiz_exc' = "none"
        /\ UNCHANGED <<answered_ids, wrong_answer_ids, review_history, all_user_answers>>

go_to_question_by_id(q_id) ==
    LET new_history == IF q_id \in Range(history) THEN history ELSE Append(history, q_id)
    IN  /\ page' = "quiz"
        /\ is_review_mode' = FALSE
        /\ answer_submitted' = (q_id \in answered_ids)
        /\ history' = new_history
        /\ current_index' = IndexOf(new_history, q_id)
        /\ user_answers' = AllUserAnswersGet(q_id)
        /\ quiz_exc' = "none"
        /\ UNCHANGED <<answered_ids, wrong_answer_ids, review_history, all_user_answers>>

\* go_to_next_question without the "no unseen question" early return:
\* sorted(unseen_q_ids)[0] then raises IndexError on the empty list.
go_to_next_question_no_unseen_check ==
    LET unseen_q_ids == QuestionIds \ Range(history)
    IN  /\ answer_submitted' = FALSE
        /\ user_answers' = <<>>
        /\ IF current_index < Len(active_list) - 1
           THEN /\ current_index' = current_index + 1
                /\ quiz_exc' = "none"
                /\ UNCHANGED history
           ELSE IF ~is_review_mode
           THEN IF unseen_q_ids = {}
                THEN /\ quiz_exc' = "IndexError"
                     /\ UNCHANGED <<history, current_index>>
                ELSE LET new_q_id == CHOOSE q \in unseen_q_ids : \A r \in unseen_q_ids : q <= r
                     IN  /\ history' = Append(history, new_q_id)
                         /\ current_index' = Len(history)
                         /\ quiz_exc' = "none"
           ELSE /\ quiz_exc' = "none"
                /\ UNCHANGED <<history, current_index>>
        /\ UNCHANGED <<page, answered_ids, wrong_answer_ids, is_review_mode,
                       review_history, all_user_answers>>

go_to_next_question ==
    LET unseen_q_ids == QuestionIds \ Range(history)
    IN  /\ answer_submitted' = FALSE
        /\ user_answers' = <<>>
        /\ quiz_exc' = "none"
        /\ IF current_index < Len(active_list) - 1
           THEN /\ current_index' = current_index + 1
                /\ UNCHANGED history
           ELSE IF ~is_review_mode
           THEN IF unseen_q_ids = {}
                THEN UNCHANGED <<history, current_index>>
                ELSE LET new_q_id == CHOOSE q \in unseen_q_ids : \A r \in unseen_q_ids : q <= r
                     IN  /\ history' = Append(history, new_q_id)
                         /\ current_index' = Len(history)
           ELSE UNCHANGED <<history, current_index>>
        /\ UNCHANGED <<page, answered_ids, wrong_answer_ids, is_review_mode,
                       review_history, all_user_answers>>

go_to_prev_question ==
    /\ IF current_index > 0
       THEN /\ current_index' = current_index - 1
            /\ answer_submitted' = TRUE
       ELSE UNCHANGED <<current_index, answer_submitted>>
    /\ quiz_exc' = "none"
    /\ UNCHANGED <<page, history, user_answers, answered_ids, wrong_answer_ids,
                   is_review_mode, review_history, all_user_answers>>

\* The "review wrong answers" sidebar button, which keeps the index it finds.
ReviewButtonKeepIndex ==
    /\ wrong_answer_ids # {}
    /\ page' = "quiz"
    /\ is_review_mode' = TRUE
    /\ review_history' \in Orderings(wrong_answer_ids)
    /\ answer_submitted' = FALSE
    /\ user_answers' = <<>>
    /\ quiz_exc' = "none"
    /\ last' = [NoOp EXCEPT !.op = "review"]
    /\ UNCHANGED <<current_index, history, answered_ids, wrong_answer_ids,
                   all_user_answers, submitted>>
    /\ UNCHANGED notQuiz

\* The "review wrong answers" sidebar button (rendered while wrong_answer_ids
\* is not empty); random.sample of the whole set is any ordering of it.
ReviewButton ==
    /\ wrong_answer_ids # {}
    /\ page' = "quiz"
    /\ is_review_mode' = TRUE
    /\ review_history' \in Orderings(wrong_answer_ids)
    /\ current_index' = 0
    /\ answer_submitted' = FALSE
    /\ user_answers' = <<>>
    /\ quiz_exc' = "none"
    /\ last' = [NoOp EXCEPT !.op = "review"]
    /\ UNCHANGED <<history, answered_ids, wrong_answer_ids, all_user_answers, submitted>>
    /\ UNCHANGED notQuiz

\* A sidebar "jump_<q_id>" button.
JumpButton(q_id) ==
    /\ go_to_question_by_id(q_id)
    /\ last' = [NoOp EXCEPT !.op = "jump", !.q = q_id]
    /\ UNCHANGED submitted
    /\ UNCHANGED notQuiz

\* The start page's "begin" button: sorted_questions_list[0] is the least id.
BeginButton ==
    /\ page = "start"
    /\ go_to_question_by_id(CHOOSE q \in QuestionIds : \A r \in QuestionIds : q <= r)
    /\ last' = [NoOp EXCEPT !.op = "begin"]
    /\ UNCHANGED submitted
    /\ UNCHANGED notQuiz

\* The quiz page is rendered down to its widgets only for a current question.
QuizPageShown == page = "quiz" /\ get_current_question # NoQuestion

\* The submit handler that adds a wrong answer but never clears one.
answer_form_submit_never_discards(sel) ==
    LET q == get_current_question
        answers == SelectedKeys(sel)
        accepted == IF is_multiple_choice(q)
                    THEN ~(Len(answers) < num_correct_answers(q)) /\ ~(Len(answers) > num_correct_answers(q))
                    ELSE ~(Len(answers) # 1)
    IN  /\ user_answers' = answers
        /\ IF accepted
           THEN /\ answer_submitted' = TRUE
                /\ answered_ids' = answered_ids \cup {q}
                /\ wrong_answer_ids' = IF answers # correct_answers(q)
                                       THEN wrong_answer_ids \cup {q}
                                       ELSE wrong_answer_ids
           ELSE UNCHANGED <<answer_submitted, answered_ids, wrong_answer_ids>>
        /\ quiz_exc' = "none"
        /\ UNCHANGED <<page, history, current_index, is_review_mode, review_history,
                       all_user_answers>>

\* The submit handler that marks the question answered before validating.
answer_form_submit_marks_first(sel) ==
    LET q == get_current_question
        answers == SelectedKeys(sel)
        accepted == IF is_multiple_choice(q)
                    THEN ~(Len(answers) < num_correct_answers(q)) /\ ~(Len(answers) > num_correct_answers(q))
                    ELSE ~(Len(answers) # 1)
    IN  /\ user_answers' = answers
        /\ answered_ids' = answered_ids \cup {q}
        /\ IF accepted
           THEN /\ answer_submitted' = TRUE
                /\ wrong_answer_ids' = IF answers # correct_answers(q)
                                       THEN wrong_answer_ids \cup {q}
                                       ELSE wrong_answer_ids \ {q}
           ELSE UNCHANGED <<answer_submitted, wrong_answer_ids>>
        /\ quiz_exc' = "none"
        /\ UNCHANGED <<page, history, current_index, is_review_mode, review_history,
                       all_user_answers>>

\* The body of "if submitted:" in answer_form_<id>, for the ticked boxes sel.
answer_form_submit(sel) ==
    LET q == get_current_question
        answers == SelectedKeys(sel)
        accepted == IF is_multiple_choice(q)
                    THEN ~(Len(answers) < num_correct_answers(q)) /\ ~(Len(answers) > num_correct_answers(q))
                    ELSE ~(Len(answers) # 1)
    IN  /\ user_answers' = answers
        /\ IF accepted
           THEN /\ answer_submitted' = TRUE
                /\ answered_ids' = answered_ids \cup {q}
                /\ wrong_answer_ids' = IF answers # correct_answers(q)
                                       THEN wrong_answer_ids \cup {q}
                                       ELSE wrong_answer_ids \ {q}
           ELSE UNCHANGED <<answer_submitted, answered_ids, wrong_answer_ids>>
        /\ quiz_exc' = "none"
        /\ UNCHANGED <<page, history, current_index, is_review_mode, review_history,
                       all_user_answers>>

\* The answer form is rendered only while answer_submitted is false.
SubmitButton(sel) ==
    /\ QuizPageShown
    /\ ~answer_submitted
    /\ answer_form_submit(sel)
    /\ last' = [NoOp EXCEPT !.op = "submit", !.q = get_current_question, !.sel = sel]
    /\ submitted' = IF Cardinality(sel) = num_correct_answers(get_current_question)
                    THEN [submitted EXCEPT ![get_current_question] = SelectedKeys(sel)]
                    ELSE submitted
    /\ UNCHANGED notQuiz

\* The "previous" button is disabled while current_index <= 0.
PrevButton ==
    /\ QuizPageShown
    /\ ~(current_index <= 0)
    /\ go_to_prev_question
    /\ last' = [NoOp EXCEPT !.op = "prev", !.at = current_index]
    /\ UNCHANGED submitted
    /\ UNCHANGED notQuiz

\* The "next" button is rendered unless the last question is shown and nothing
\* is left to append.
NextButton ==
    LET is_last_question_in_history == current_index >= Len(active_list) - 1
        has_unseen_questions == Len(history) < Cardinality(QuestionIds)
    IN  /\ QuizPageShown
        /\ ~is_last_question_in_history \/ (~is_review_mode /\ has_unseen_questions)
        /\ go_to_next_question
        /\ last' = [NoOp EXCEPT !.op = "next", !.at = current_index]
        /\ UNCHANGED submitted
        /\ UNCHANGED notQuiz

\* go_to_next_question called in any state of the quiz page, as a caller other
\* than the guarded button would call it.
CallNext ==
    /\ page = "quiz"
    /\ go_to_next_question
    /\ last' = [NoOp EXCEPT !.op = "call_next", !.at = current_index]
    /\ UNCHANGED submitted
    /\ UNCHANGED notQuiz

----------------------------------------------------------------------------
(* Text of the report file: a sequence of tokens, one per digit and one per *)
(* literal piece of text, so that the scripts' regular expressions can be  *)
(* run over it.  String literals of the module are ASCII; the Japanese     *)
(* literals of the source are written in romaji:                           *)
(*   "Mondai" 問題, "BunsekiError" 分析エラー, "no-bunseki-kekka" の分析結果,  *)
(*   "no-bunsekichuu-ni-error" の分析中にエラーが発生しました,                 *)
(*   "seitou-to-icchi" 正答と一致, "handan-funou" 判断不能, "error" エラー.    *)

Digits == <<"0", "1", "2", "3", "4", "5", "6", "7", "8", "9">>

IsDigit(tok) == tok \in Range(Digits)

IsSpace(tok) == tok \in {" ", "\n", "\t"}

\* str(n) for n >= 0: its decimal digits.
RECURSIVE FormatInt(_)
FormatInt(n) == IF n < 10 THEN <<Digits[n + 1]>> ELSE Append(FormatInt(n \div 10), Digits[(n % 10) + 1])

DigitValue(tok) == (CHOOSE i \in 1..10 : Digits[i] = tok) - 1

\* int(digits)
RECURSIVE ParseInt(_)
ParseInt(ds) ==
    IF ds = <<>> THEN 0 ELSE 10 * ParseInt(SubSeq(ds, 1, Len(ds) - 1)) + DigitValue(ds[Len(ds)])

\* The first position >= i of text that holds no whitespace (\s*).
RECURSIVE SkipSpace(_, _)
SkipSpace(text, i) == IF i <= Len(text) /\ IsSpace(text[i]) THEN SkipSpace(text, i + 1) ELSE i

\* The first position >= i of text that holds no digit (\d+ is greedy).
RECURSIVE SkipDigits(_, _)
SkipDigits(text, i) == IF i <= Len(text) /\ IsDigit(text[i]) THEN SkipDigits(text, i + 1) ELSE i

\* text holds the literal lit at position i.
HasLiteralAt(text, i, lit) ==
    /\ i + Len(lit) - 1 <= Len(text)
    /\ \A k \in 1..Len(lit) : text[i + k - 1] = lit[k]

----------------------------------------------------------------------------
(* analyze_undecided_questions.py and analyze_undecided_questions_bk.py *)

\* Number of questions in INPUT_FILE.
NumInputQuestions == 5

ANALYZE_MAX_CONCURRENT_TASKS == 3

MAX_QUESTIONS_TO_ANALYZE == 3

BK_MAX_QUESTIONS_TO_ANALYZE == 5

\* all_questions, in file order: ai_analysis.ai_verification.status of each id.
InputStatus(id) == IF id % 3 = 0 THEN "seitou-to-icchi" ELSE "handan-funou"

all_questions == [i \in 1..NumInputQuestions |-> i]

NoFile == [exists |-> FALSE, content |-> <<>>]

\* re.findall(r'問題ID:\s*(\d+)', content), as the set of the ints found.
FoundIds(content) ==
    {ParseInt(SubSeq(content, SkipSpace(content, i + 3), SkipDigits(content, SkipSpace(content, i + 3)) - 1)) :
        i \in {k \in 1..Len(content) :
                 /\ HasLiteralAt(content, k, <<"Mondai", "ID", ":">>)
                 /\ SkipDigits(content, SkipSpace(content, k + 3)) > SkipSpace(content, k + 3)}}

get_already_analyzed_ids(file) == IF ~file.exists THEN {} ELSE FoundIds(file.content)

\* len(re.findall(r'^##\s*問題\s*\d+', content, re.MULTILINE))
CountHeadings(content) ==
    Cardinality({k \in 1..Len(content) :
        /\ k = 1 \/ content[k - 1] = "\n"
        /\ content[k] = "##"
        /\ LET a == SkipSpace(content, k + 1)
           IN  /\ a <= Len(content) /\ content[a] = "Mondai"
               /\ SkipDigits(content, SkipSpace(content, a + 1)) > SkipSpace(content, a + 1)})

\* What the model can answer: the report in the requested three-section
\* format, or a report that also cites the question as "問題ID: n".
ModelAnswers == {"report", "report_citing_id"}

\* response.text for question id.
ResponseText(answer, id) ==
    IF answer = "report"
    THEN <<"##", " ", "1", ".", " ", "text", "\n", "text", "\n">>
    ELSE <<"##", " ", "1", ".", " ", "text", "\n", "Mondai", "ID", ":", " ">> \o FormatInt(id)
             \o <<"\n", "text", "\n">>

\* f"## 分析エラー\n\n問題ID {id} の分析中にエラーが発生しました: {e}"
ErrorSentinel(id) ==
    <<"##", " ", "BunsekiError", "\n", "\n", "Mondai", "ID", " ">> \o FormatInt(id)
        \o <<" ", "no-bunsekichuu-ni-error", ":", " ", "text">>

\* "# RAGシステム...レポート\n\n" then "...\n\n---\n\n"
ReportHeader == <<"#", " ", "text", "\n", "\n", "...", "\n", "\n", "---", "\n", "\n">>

\* f"## 問題 {n} (ID: {id}) の分析結果\n\n", the report, "\n\n---\n\n"
Section(n, id, report) ==
    <<"##", " ", "Mondai", " ">> \o FormatInt(n) \o <<" ", "(", "ID", ":", " ">> \o FormatInt(id)
        \o <<")", " ", "no-bunseki-kekka", "\n", "\n">> \o report \o <<"\n", "\n", "---", "\n", "\n">>

\* The first n elements of s (s[:n]).
Prefix(s, n) == SubSeq(s, 1, IF Len(s) < n THEN Len(s) ELSE n)

undecided_questions == SelectSeq(all_questions, LAMBDA id : InputStatus(id) = "handan-funou")

NoTasks == <<>>

AnaInit ==
    /\ report_file = NoFile
    /\ ana_script = "none"
    /\ ana_pc = "idle"
    /\ questions_to_analyze = <<>>
    /\ ana_tasks = NoTasks
    /\ semaphore = ANALYZE_MAX_CONCURRENT_TASKS
    /\ ana_outcome = "none"
    /\ ana_written = {}

\* main up to the gather: the tasks are created, none has run yet.
StartGather(script, todo) ==
    /\ ana_script' = script
    /\ ana_pc' = "gathering"
    /\ questions_to_analyze' = todo
    /\ ana_tasks' = [i \in 1..Len(todo) |-> [pc |-> "created", result |-> <<>>]]
    /\ semaphore' = ANALYZE_MAX_CONCURRENT_TASKS
    /\ ana_outcome' = "none"
    /\ UNCHANGED <<report_file, ana_written>>

\* main returns before creating any task.
ReturnEarly(script) ==
    /\ ana_script' = script
    /\ ana_outcome' = "returned_early"
    /\ questions_to_analyze' = <<>>
    /\ ana_tasks' = NoTasks
    /\ UNCHANGED <<ana_pc, semaphore, report_file, ana_written>>

\* analyze_undecided_questions.main from its start to the gather.
MainStart ==
    /\ ana_pc = "idle"
    /\ LET analyzed_ids == get_already_analyzed_ids(report_file)
           todo == SelectSeq(undecided_questions, LAMBDA id : id \notin analyzed_ids)
       IN  IF undecided_questions = <<>> \/ todo = <<>>
           THEN ReturnEarly("new")
           ELSE StartGather("new",
                    IF MAX_QUESTIONS_TO_ANALYZE > 0 /\ Len(todo) > MAX_QUESTIONS_TO_ANALYZE
                    THEN Prefix(todo, MAX_QUESTIONS_TO_ANALYZE) ELSE todo)
    /\ UNCHANGED notAna

\* analyze_undecided_questions_bk.main from its start to the gather.
BkMainStart ==
    /\ ana_pc = "idle"
    /\ IF undecided_questions = <<>>
       THEN ReturnEarly("bk")
       ELSE StartGather("bk",
                IF BK_MAX_QUESTIONS_TO_ANALYZE > 0 /\ Len(undecided_questions) > BK_MAX_QUESTIONS_TO_ANALYZE
                THEN Prefix(undecided_questions, BK_MAX_QUESTIONS_TO_ANALYZE)
                ELSE undecided_questions)
    /\ UNCHANGED notAna

\* No task is at the entry of the section with a permit free.  The event
\* loop runs the steps that are ready in the order they became ready: the
\* first step of every new task, and the wake-up of the task that waited for
\* a permit just released, come before a sleep that ends, a call that
\* returns, or the callback that resumes main.
NoTaskCanEnter == \A i \in DOMAIN ana_tasks : ana_tasks[i].pc = "created" => semaphore = 0

\* An entry into the guarded section that does not wait for a permit.
TaskAcquireWithoutWaiting(i) ==
    /\ ana_pc = "gathering"
    /\ i \in DOMAIN ana_tasks
    /\ ana_tasks[i].pc = "created"
    /\ \A j \in 1..(i - 1) : ana_tasks[j].pc # "created"
    /\ semaphore' = semaphore - 1
    /\ ana_tasks' = [ana_tasks EXCEPT ![i].pc = "sleeping"]
    /\ UNCHANGED <<report_file, ana_script, ana_pc, questions_to_analyze, ana_outcome, ana_written>>
    /\ UNCHANGED notAna

\* analyze_with_semaphore: "async with semaphore" is entered.  gather starts
\* the tasks in the order of the list and the semaphore wakes its waiters
\* first come, first served.
TaskAcquire(i) ==
    /\ ana_pc = "gathering"
    /\ i \in DOMAIN ana_tasks
    /\ ana_tasks[i].pc = "created"
    /\ \A j \in 1..(i - 1) : ana_tasks[j].pc # "created"
    /\ semaphore > 0
    /\ semaphore' = semaphore - 1
    /\ ana_tasks' = [ana_tasks EXCEPT ![i].pc = "sleeping"]
    /\ UNCHANGED <<report_file, ana_script, ana_pc, questions_to_analyze, ana_outcome, ana_written>>
    /\ UNCHANGED notAna

\* The call "analyze_with_gemini(client, model_name_to_use, question)" of the
\* new script passes three arguments to a function of two parameters.
CallRaisesTypeError(script) == script = "new"

\* analyze_with_semaphore after asyncio.sleep(1): analyze_with_gemini is
\* called; a call that cannot bind its arguments raises, which leaves the
\* "async with" block and ends the task.
TaskWake(i) ==
    /\ ana_pc = "gathering"
    /\ i \in DOMAIN ana_tasks
    /\ ana_tasks[i].pc = "sleeping"
    /\ NoTaskCanEnter
    /\ IF CallRaisesTypeError(ana_script)
       THEN /\ ana_tasks' = [ana_tasks EXCEPT ![i].pc = "raised"]
            /\ semaphore' = semaphore + 1
       ELSE /\ ana_tasks' = [ana_tasks EXCEPT ![i].pc = "calling"]
            /\ UNCHANGED semaphore
    /\ UNCHANGED <<report_file, ana_script, ana_pc, questions_to_analyze, ana_outcome, ana_written>>
    /\ UNCHANGED notAna

\* analyze_with_gemini: generate_content returns an answer.
TaskReturn(i, answer) ==
    /\ ana_pc = "gathering"
    /\ i \in DOMAIN ana_tasks
    /\ ana_tasks[i].pc = "calling"
    /\ NoTaskCanEnter
    /\ ana_tasks' = [ana_tasks EXCEPT ![i] =
                        [pc |-> "done", result |-> ResponseText(answer, questions_to_analyze[i])]]
    /\ semaphore' = semaphore + 1
    /\ UNCHANGED <<report_file, ana_script, ana_pc, questions_to_analyze, ana_outcome, ana_written>>
    /\ UNCHANGED notAna

\* analyze_with_gemini: generate_content raises; the except clause returns the
\* error sentinel.
TaskCallFails(i) ==
    /\ ana_pc = "gathering"
    /\ i \in DOMAIN ana_tasks
    /\ ana_tasks[i].pc = "calling"
    /\ NoTaskCanEnter
    /\ ana_tasks' = [ana_tasks EXCEPT ![i] =
                        [pc |-> "done", result |-> ErrorSentinel(questions_to_analyze[i])]]
    /\ semaphore' = semaphore + 1
    /\ UNCHANGED <<report_file, ana_script, ana_pc, questions_to_analyze, ana_outcome, ana_written>>
    /\ UNCHANGED notAna

\* The sections appended for results k..n, numbered from start_index + k.
RECURSIVE NewSections(_, _, _, _)
NewSections(results, ids, k, start_index) ==
    IF k > Len(results) THEN <<>>
    ELSE (IF results[k] # <<>> THEN Section(start_index + k, ids[k], results[k]) ELSE <<>>)
         \o NewSections(results, ids, k + 1, start_index)

\* The sections written by the bk script for results k..n, numbered from k.
RECURSIVE BkSections(_, _, _)
BkSections(results, ids, k) ==
    IF k > Len(results) THEN <<>>
    ELSE Section(k, ids[k], results[k]) \o BkSections(results, ids, k + 1)

\* The gather ends: with the first task that raised (the exception leaves
\* main, the other tasks are cancelled), or with every task done, after
\* which the script writes the report.
GatherEnds ==
    /\ ana_pc = "gathering"
    /\ \/ /\ \E i \in DOMAIN ana_tasks : ana_tasks[i].pc = "raised"
          /\ NoTaskCanEnter
       \/ \A i \in DOMAIN ana_tasks : ana_tasks[i].pc = "done"
    /\ LET results == [i \in DOMAIN ana_tasks |-> ana_tasks[i].result]
           old == report_file.content
       IN  IF \E i \in DOMAIN ana_tasks : ana_tasks[i].pc = "raised"
           THEN /\ ana_outcome' = "raised"
                /\ UNCHANGED <<report_file, ana_written>>
           ELSE IF ana_script = "new"
           THEN /\ report_file' =
                       [exists |-> TRUE,
                        content |-> old \o (IF old = <<>> THEN ReportHeader ELSE <<>>)
                                        \o NewSections(results, questions_to_analyze, 1, CountHeadings(old))]
                /\ ana_written' = ana_written \cup {questions_to_analyze[i] : i \in {k \in DOMAIN ana_tasks : results[k] # <<>>}}
                /\ ana_outcome' = "completed"
           ELSE /\ report_file' =
                       [exists |-> TRUE,
                        content |-> ReportHeader \o BkSections(results, questions_to_analyze, 1)]
                /\ ana_written' = Range(questions_to_analyze)
                /\ ana_outcome' = "completed"
    /\ ana_pc' = "idle"
    /\ ana_tasks' = NoTasks
    /\ semaphore' = ANALYZE_MAX_CONCURRENT_TASKS
    /\ UNCHANGED <<ana_script, questions_to_analyze>>
    /\ UNCHANGED notAna

----------------------------------------------------------------------------
(* preprocess_exam_data.py: main_async and its tasks.  The verdict literals *)
(* are "seitou-to-icchi" (正答と一致) and "error" (エラー).                   *)

\* Number of questions in the exam file of the runs that are followed over
\* several executions of the script.
NumExamQuestions == 3

MAX_CONCURRENT_TASKS == 5

\* The exam file with the question ids 1..n, each with its own text.
ExamFile(n) == [i \in 1..n |-> [question_id |-> i, question_text |-> "Q" \o ToString(i)]]

NoOutputFile == [exists |-> FALSE, records |-> <<>>]

EmptyDict == [id \in {} |-> 0]

NoResult == [question_id |-> 0, status |-> "None"]

\* {q['question_id']: q for q in processed_data}: a later record replaces an
\* earlier one with the same id.
DictOfRecords(records) ==
    [id \in {records[k].question_id : k \in 1..Len(records)} |->
        records[CHOOSE k \in 1..Len(records) :
                    /\ records[k].question_id = id
                    /\ \A j \in (k + 1)..Len(records) : records[j].question_id # id]]

\* sorted(d.values(), key=question_id) for a dict keyed by question id.
RECURSIVE SortedValues(_)
SortedValues(d) ==
    IF DOMAIN d = {} THEN <<>>
    ELSE LET least == CHOOSE id \in DOMAIN d : \A other \in DOMAIN d : d[id].question_id <= d[other].question_id
         IN  <<d[least]>> \o SortedValues([id \in DOMAIN d \ {least} |-> d[id]])

PreInitWith(n) ==
    /\ exam_questions = ExamFile(n)
    /\ output_file = NoOutputFile
    /\ pre_pc = "idle"
    /\ pre_outcome = "none"
    /\ processed_questions_dict = EmptyDict
    /\ questions_to_process = <<>>
    /\ pre_tasks = <<>>
    /\ pre_effects = {}

\* A start that goes on to the gather and the write even when no question is
\* left to process.
PreMainStartWithoutEarlyReturn ==
    /\ pre_pc = "idle"
    /\ LET loaded == IF output_file.exists THEN DictOfRecords(output_file.records) ELSE EmptyDict
           todo == SelectSeq(exam_questions, LAMBDA q : q.question_id \notin DOMAIN loaded)
       IN  /\ processed_questions_dict' = loaded
           /\ questions_to_process' = todo
           /\ pre_outcome' = "none"
           /\ pre_pc' = "gathering"
           /\ pre_tasks' = [i \in 1..Len(todo) |->
                               [pc |-> "created", question |-> todo[i], result |-> NoResult]]
    /\ pre_effects' = {}
    /\ UNCHANGED <<exam_questions, output_file>>
    /\ UNCHANGED notPre

\* main_async from its start to the gather: the output file is loaded, the
\* questions without a record are selected, a task is created for each.
PreMainStart ==
    /\ pre_pc = "idle"
    /\ LET loaded == IF output_file.exists THEN DictOfRecords(output_file.records) ELSE EmptyDict
           todo == SelectSeq(exam_questions, LAMBDA q : q.question_id \notin DOMAIN loaded)
       IN  /\ processed_questions_dict' = loaded
           /\ questions_to_process' = todo
           /\ IF todo = <<>>
              THEN /\ pre_outcome' = "returned_early"
                   /\ UNCHANGED <<pre_pc, pre_tasks>>
              ELSE /\ pre_outcome' = "none"
                   /\ pre_pc' = "gathering"
                   /\ pre_tasks' = [i \in 1..Len(todo) |->
                                       [pc |-> "created", question |-> todo[i], result |-> NoResult]]
    /\ pre_effects' = {}
    /\ UNCHANGED <<exam_questions, output_file>>
    /\ UNCHANGED notPre

\* gather starts task i: process_single_question_async runs up to its first
\* await, inside translate_explanation_async.  Nothing limits how many run.
PreTaskStart(i) ==
    /\ pre_pc = "gathering"
    /\ i \in DOMAIN pre_tasks
    /\ pre_tasks[i].pc = "created"
    /\ pre_tasks' = [pre_tasks EXCEPT ![i].pc = "translating"]
    /\ UNCHANGED <<exam_questions, output_file, pre_pc, pre_outcome,
                   processed_questions_dict, questions_to_process, pre_effects>>
    /\ UNCHANGED notPre

\* The event loop runs every new task to its first await before it resumes
\* any task: no awaited call returns while a task is still to start.
AllStarted == \A k \in DOMAIN pre_tasks : pre_tasks[k].pc # "created"

\* translate_explanation_async returns (the translation, or its fallback
\* text); the task goes on into hybrid_search_async and its embedding call.
TranslateEnds(i) ==
    /\ pre_pc = "gathering"
    /\ AllStarted
    /\ i \in DOMAIN pre_tasks
    /\ pre_tasks[i].pc = "translating"
    /\ pre_tasks' = [pre_tasks EXCEPT ![i].pc = "searching"]
    /\ pre_effects' = pre_effects \cup {"generate"}
    /\ UNCHANGED <<exam_questions, output_file, pre_pc, pre_outcome,
                   processed_questions_dict, questions_to_process>>
    /\ UNCHANGED notPre

\* hybrid_search_async returns its candidates (with or without the vector
\* ones); the task goes on into select_and_verify_docs_with_ai_async.
SearchEnds(i) ==
    /\ pre_pc = "gathering"
    /\ AllStarted
    /\ i \in DOMAIN pre_tasks
    /\ pre_tasks[i].pc = "searching"
    /\ pre_tasks' = [pre_tasks EXCEPT ![i].pc = "verifying"]
    /\ pre_effects' = pre_effects \cup {"embed"}
    /\ UNCHANGED <<exam_questions, output_file, pre_pc, pre_outcome,
                   processed_questions_dict, questions_to_process>>
    /\ UNCHANGED notPre

\* The code that runs between two awaited calls raises (a missing key of the
\* question or of a chunk): process_single_question_async returns None.
UnexpectedException(i) ==
    /\ pre_pc = "gathering"
    /\ AllStarted
    /\ i \in DOMAIN pre_tasks
    /\ pre_tasks[i].pc \in {"translating", "searching"}
    /\ pre_tasks' = [pre_tasks EXCEPT ![i].pc = "done", ![i].result = NoResult]
    /\ pre_effects' = pre_effects \cup (IF pre_tasks[i].pc = "translating" THEN {"generate"} ELSE {"embed"})
    /\ UNCHANGED <<exam_questions, output_file, pre_pc, pre_outcome,
                   processed_questions_dict, questions_to_process>>
    /\ UNCHANGED notPre

\* What select_and_verify_docs_with_ai_async returns: the verdict parsed
\* from the model's JSON, or the sentinel of its except clause.
VerifyOutcomes == {"seitou-to-icchi", "error"}

\* select_and_verify_docs_with_ai_async returns; the task returns the record
\* built from its question.
VerifyEnds(i, status) ==
    /\ pre_pc = "gathering"
    /\ AllStarted
    /\ i \in DOMAIN pre_tasks
    /\ pre_tasks[i].pc = "verifying"
    /\ pre_tasks' = [pre_tasks EXCEPT
                        ![i].pc = "done",
                        ![i].result = [question_id |-> pre_tasks[i].question.question_id,
                                       question_text |-> pre_tasks[i].question.question_text,
                                       status |-> status]]
    /\ pre_effects' = pre_effects \cup {"generate"}
    /\ UNCHANGED <<exam_questions, output_file, pre_pc, pre_outcome,
                   processed_questions_dict, questions_to_process>>
    /\ UNCHANGED notPre

\* A merge that drops the None results first and then stores what is left
\* under the ids of the first questions of questions_to_process.
MergeResultsByPositionOfSuccesses(d, results, k) ==
    LET successes == SelectSeq(SubSeq(results, k, Len(results)), LAMBDA r : r # NoResult)
        keys == {questions_to_process[j].question_id : j \in 1..Len(successes)}
    IN  [id \in DOMAIN d \cup keys |->
            IF id \in keys
            THEN successes[CHOOSE j \in 1..Len(successes) : questions_to_process[j].question_id = id]
            ELSE d[id]]

\* processed_questions_dict after the loop over zip(questions_to_process,
\* results), from position k on.
RECURSIVE MergeResults(_, _, _)
MergeResults(d, results, k) ==
    IF k > Len(results) THEN d
    ELSE IF results[k] # NoResult
         THEN MergeResults((results[k].question_id :> results[k]) @@ d, results, k + 1)
         ELSE MergeResults(d, results, k + 1)

\* An end of the gather that writes only the results of this run.
PreGatherEndsWritesNewOnly ==
    /\ pre_pc = "gathering"
    /\ \A i \in DOMAIN pre_tasks : pre_tasks[i].pc = "done"
    /\ LET merged == MergeResults(EmptyDict, [i \in DOMAIN pre_tasks |-> pre_tasks[i].result], 1)
       IN  /\ processed_questions_dict' = merged
           /\ output_file' = [exists |-> TRUE, records |-> SortedValues(merged)]
    /\ pre_pc' = "idle"
    /\ pre_outcome' = "completed"
    /\ pre_tasks' = <<>>
    /\ pre_effects' = pre_effects \cup {"write"}
    /\ UNCHANGED <<exam_questions, questions_to_process>>
    /\ UNCHANGED notPre

\* An end of the gather that writes the output file only when no task
\* returned None.
PreGatherEndsSavesOnlyCompleteRuns ==
    /\ pre_pc = "gathering"
    /\ \A i \in DOMAIN pre_tasks : pre_tasks[i].pc = "done"
    /\ LET merged == MergeResults(processed_questions_dict,
                                  [i \in DOMAIN pre_tasks |-> pre_tasks[i].result], 1)
       IN  IF \E i \in DOMAIN pre_tasks : pre_tasks[i].result = NoResult
           THEN UNCHANGED <<processed_questions_dict, output_file>>
           ELSE /\ processed_questions_dict' = merged
                /\ output_file' = [exists |-> TRUE, records |-> SortedValues(merged)]
    /\ pre_pc' = "idle"
    /\ pre_outcome' = "completed"
    /\ pre_tasks' = <<>>
    /\ pre_effects' = pre_effects \cup {"write"}
    /\ UNCHANGED <<exam_questions, questions_to_process>>
    /\ UNCHANGED notPre

\* The gather returns (every task is done): the results are merged into the
\* dict and the whole dict is written to the output file.
PreGatherEnds ==
    /\ pre_pc = "gathering"
    /\ \A i \in DOMAIN pre_tasks : pre_tasks[i].pc = "done"
    /\ LET merged == MergeResults(processed_questions_dict,
                                  [i \in DOMAIN pre_tasks |-> pre_tasks[i].result], 1)
       IN  /\ processed_questions_dict' = merged
           /\ output_file' = [exists |-> TRUE, records |-> SortedValues(merged)]
    /\ pre_pc' = "idle"
    /\ pre_outcome' = "completed"
    /\ pre_tasks' = <<>>
    /\ pre_effects' = pre_effects \cup {"write"}
    /\ UNCHANGED <<exam_questions, questions_to_process>>
    /\ UNCHANGED notPre

----------------------------------------------------------------------------
(* preprocess_exam_data.py: hybrid_search_async, followed as one call.    *)
(* Positions 1..NumChunks stand for the list indices 0..NumChunks-1; -1 is *)
(* the index -1 (the last element of a list).                              *)

\* Number of chunks in TEXT_CHUNKS_FILE (one row of the vector index and one
\* document of the keyword index per chunk).
NumChunks == 4

\* Largest bm25_top_n and final_top_k a call is made with.
MaxTopN == 3

MaxTopK == 2

\* The keyword scores a chunk can get.
Scores == {0, 1}

\* The text of the chunk at position i; the chunks at 1 and 2 have the same
\* text.
chunk_text(i) == IF i = 2 THEN 1 ELSE i

\* The loaded chunk list: the text of a chunk starts with its source and its
\* title, so chunks with the same text have the same source and title.
chunks ==
    [i \in 1..NumChunks |->
        [text |-> chunk_text(i),
         source |-> (chunk_text(i) + 1) \div 2,
         title |-> (chunk_text(i) + 1) \div 2]]

\* chunks[i] for an index that may be -1.
ChunkAt(i) == IF i = -1 THEN chunks[NumChunks] ELSE chunks[i]

\* s[:n]
Take(s, n) == SubSeq(s, 1, IF n < Len(s) THEN n ELSE Len(s))

\* s[::-1]
Reverse(s) == [i \in 1..Len(s) |-> s[Len(s) + 1 - i]]

\* ord is a result of np.argsort(scores): the positions by ascending score
\* (the order among equal scores is left to the sort).
IsArgsort(ord, scores) ==
    \A a, b \in 1..Len(ord) : a < b => scores[ord[a]] <= scores[ord[b]]

\* What faiss_index.search(query, k) can return as its index row: the k
\* nearest rows, nearest first; when the index has fewer than k rows the
\* row is filled up with -1.
FaissResults(k) ==
    LET found == IF k < NumChunks THEN k ELSE NumChunks
    IN  {s \in [1..k -> (1..NumChunks) \cup {-1}] :
            /\ \A i \in 1..found : s[i] # -1
            /\ \A i \in (found + 1)..k : s[i] = -1
            /\ \A i, j \in 1..found : i # j => s[i] # s[j]}

HsInit ==
    /\ hs_pc = "idle"
    /\ hs_args = [bm25_top_n |-> 0, final_top_k |-> 0]
    /\ bm25_scores = <<>>
    /\ bm25_top_indices = <<>>
    /\ bm25_candidates = <<>>
    /\ faiss_top_indices = <<>>
    /\ vector_candidates = <<>>
    /\ hs_result = <<>>
    /\ hs_failed = "none"

\* A loop that appends every chunk and never records its text as seen.
RECURSIVE final_candidates_loop_forgets_seen(_, _, _)
final_candidates_loop_forgets_seen(todo, final_candidates, seen_texts) ==
    IF todo = <<>> THEN final_candidates
    ELSE IF Head(todo).text \notin seen_texts
         THEN final_candidates_loop_forgets_seen(Tail(todo), Append(final_candidates, Head(todo)), seen_texts)
         ELSE final_candidates_loop_forgets_seen(Tail(todo), final_candidates, seen_texts)

\* The loop over vector_candidates + bm25_candidates: a chunk is appended
\* when its text was not seen, and its text is then recorded.
RECURSIVE final_candidates_loop(_, _, _)
final_candidates_loop(todo, final_candidates, seen_texts) ==
    IF todo = <<>> THEN final_candidates
    ELSE IF Head(todo).text \notin seen_texts
         THEN final_candidates_loop(Tail(todo), Append(final_candidates, Head(todo)),
                                    seen_texts \cup {Head(todo).text})
         ELSE final_candidates_loop(Tail(todo), final_candidates, seen_texts)

\* A merge that walks the keyword candidates before the vector candidates.
hybrid_merge_keyword_first(vector, bm25, k) ==
    Take(final_candidates_loop(bm25 \o vector, <<>>, {}), k)

\* A merge that keeps the last place of the result for a keyword candidate.
hybrid_merge_reserves_keyword_place(vector, bm25, k) ==
    Take(final_candidates_loop(Take(vector, k - 1) \o bm25, <<>>, {}), k)

\* Lines 100-107: the merged, deduplicated and truncated candidate list.
hybrid_merge(vector, bm25, k) ==
    Take(final_candidates_loop(vector \o bm25, <<>>, {}), k)

\* hybrid_search_async(bm25_top_n = n, final_top_k = k) from its start to the
\* awaited embedding call: the query gets some keyword scores, they are
\* ranked and the best n chunks are taken.
HsCall(n, k) ==
    /\ hs_pc = "idle"
    /\ \E scores \in [1..NumChunks -> Scores] :
         \E ord \in {o \in Orderings(1..NumChunks) : IsArgsort(o, scores)} :
            LET top == Take(Reverse(ord), n)
            IN  /\ bm25_scores' = scores
                /\ bm25_top_indices' = top
                /\ bm25_candidates' = [i \in 1..Len(top) |-> chunks[top[i]]]
    /\ hs_args' = [bm25_top_n |-> n, final_top_k |-> k]
    /\ faiss_top_indices' = <<>>
    /\ vector_candidates' = <<>>
    /\ hs_result' = <<>>
    /\ hs_failed' = "none"
    /\ hs_pc' = "embedding"
    /\ UNCHANGED notHs

\* The embedding call and the index search return: the vector candidates are
\* read from the chunk list, the two lists are merged and returned.
HsSearchReturns ==
    /\ hs_pc = "embedding"
    /\ \E indices \in FaissResults(hs_args.final_top_k) :
         LET found == [i \in 1..Len(indices) |-> ChunkAt(indices[i])]
         IN  /\ faiss_top_indices' = indices
             /\ vector_candidates' = found
             /\ hs_result' = hybrid_merge(found, bm25_candidates, hs_args.final_top_k)
    /\ hs_pc' = "returned"
    /\ UNCHANGED <<hs_args, bm25_scores, bm25_top_indices, bm25_candidates, hs_failed>>
    /\ UNCHANGED notHs

\* A failure of the vector search that leaves the function as an exception.
HsVectorSearchFails_raises(what) ==
    /\ hs_pc = "embedding"
    /\ hs_failed' = what
    /\ hs_pc' = "raised"
    /\ UNCHANGED <<hs_args, bm25_scores, bm25_top_indices, bm25_candidates,
                   faiss_top_indices, vector_candidates, hs_result>>
    /\ UNCHANGED notHs

\* A call inside the try block raises (what names it): the except clause
\* prints the error, vector_candidates is still the empty list, and the
\* merge goes on with the keyword candidates.
HsVectorSearchFails(what) ==
    /\ hs_pc = "embedding"
    /\ hs_failed' = what
    /\ hs_result' = hybrid_merge(vector_candidates, bm25_candidates, hs_args.final_top_k)
    /\ hs_pc' = "returned"
    /\ UNCHANGED <<hs_args, bm25_scores, bm25_top_indices, bm25_candidates,
                   faiss_top_indices, vector_candidates>>
    /\ UNCHANGED notHs

\* The calls of the try block that can raise.
VectorSearchCalls == {"embed_content_async", "faiss_index.search"}

----------------------------------------------------------------------------
(* preprocess_exam_data.py: select_and_verify_docs_with_ai_async and       *)
(* generate_content_with_retry, followed as one call.  A text is a         *)
(* sequence of tokens: "fence" (three backquotes), the word "json", "\n",  *)
(* " ", the JSON punctuation, quoted JSON strings, and "prose" (a word of  *)
(* explanation).  A JSON value is a pair <<kind, content>>: an object's    *)
(* content is a function from keys to values, an array's is a sequence,    *)
(* a string's is its characters.  The literals are "mujun-no-kanousei-ari" *)
(* (矛盾の可能性あり), "icchi" (一致), "kouho-nashi" (関連ドキュメントの   *)
(* 候補が見つかりませんでした。), "AI-shori-chuu-ni-error: " (AI処理中に   *)
(* エラーが発生しました: ) and "outou-ga-kara" (APIからの応答が空です。).  *)

MAX_RETRIES == 3

\* The quoted strings that occur in a text, with the string each denotes.
StringContent ==
    ("\"related_docs\"" :> "related_docs") @@ ("\"excluded_docs\"" :> "excluded_docs")
    @@ ("\"ai_verification\"" :> "ai_verification") @@ ("\"status\"" :> "status")
    @@ ("\"justification\"" :> "justification") @@ ("\"riyuu\"" :> "riyuu")
    @@ ("\"seitou-to-icchi\"" :> "seitou-to-icchi")
    @@ ("\"mujun-no-kanousei-ari\"" :> "mujun-no-kanousei-ari")
    @@ ("\"handan-funou\"" :> "handan-funou") @@ ("\"icchi\"" :> "icchi")

NoMembers == [key \in {} |-> <<>>]

\* json.loads: what the decoder reads at the head of a text, and the rest.
\* ok is FALSE where the decoder raises JSONDecodeError.
RECURSIVE ParseValue(_), ParseMembers(_, _), ParseElements(_, _)
ParseValue(text) ==
    LET t == LStrip(text)
        failed == [ok |-> FALSE, value |-> <<>>, rest |-> <<>>]
    IN  IF t = <<>> THEN failed
        ELSE IF Head(t) \in DOMAIN StringContent
        THEN [ok |-> TRUE, value |-> <<"string", StringContent[Head(t)]>>, rest |-> Tail(t)]
        ELSE IF Head(t) = "{"
        THEN LET u == LStrip(Tail(t))
             IN  IF u # <<>> /\ Head(u) = "}"
                 THEN [ok |-> TRUE, value |-> <<"object", NoMembers>>, rest |-> Tail(u)]
                 ELSE ParseMembers(u, NoMembers)
        ELSE IF Head(t) = "["
        THEN LET u == LStrip(Tail(t))
             IN  IF u # <<>> /\ Head(u) = "]"
                 THEN [ok |-> TRUE, value |-> <<"array", <<>>>>, rest |-> Tail(u)]
                 ELSE ParseElements(u, <<>>)
        ELSE failed

\* The members of an object after "{" or ",": a later key replaces an
\* earlier equal one.
ParseMembers(text, members) ==
    LET t == LStrip(text)
        failed == [ok |-> FALSE, value |-> <<>>, rest |-> <<>>]
    IN  IF t = <<>> \/ Head(t) \notin DOMAIN StringContent THEN failed
        ELSE LET u == LStrip(Tail(t))
             IN  IF u = <<>> \/ Head(u) # ":" THEN failed
                 ELSE LET v == ParseValue(Tail(u))
                          w == LStrip(v.rest)
                          more == (StringContent[Head(t)] :> v.value) @@ members
                      IN  IF ~v.ok \/ w = <<>> THEN failed
                          ELSE IF Head(w) = "}"
                          THEN [ok |-> TRUE, value |-> <<"object", more>>, rest |-> Tail(w)]
                          ELSE IF Head(w) = "," THEN ParseMembers(Tail(w), more)
                          ELSE failed

\* The elements of an array after "[" or ",".
ParseElements(text, items) ==
    LET v == ParseValue(text)
        w == LStrip(v.rest)
        failed == [ok |-> FALSE, value |-> <<>>, rest |-> <<>>]
    IN  IF ~v.ok \/ w = <<>> THEN failed
        ELSE IF Head(w) = "]"
        THEN [ok |-> TRUE, value |-> <<"array", Append(items, v.value)>>, rest |-> Tail(w)]
        ELSE IF Head(w) = "," THEN ParseElements(Tail(w), Append(items, v.value))
        ELSE failed

\* json.loads(text): one value, with nothing but whitespace around it.
json_loads(text) ==
    LET v == ParseValue(text)
    IN  IF v.ok /\ LStrip(v.rest) = <<>>
        THEN [ok |-> TRUE, value |-> v.value]
        ELSE [ok |-> FALSE, value |-> <<>>]

\* re.search of the pattern (fence)json\n(.*)\n(fence) with re.DOTALL: the
\* leftmost opening fence, and group 1 up to the last closing fence after it.
json_text_match(text) ==
    LET opens == {p \in 1..Len(text) :
                     /\ p + 2 <= Len(text)
                     /\ text[p] = "fence" /\ text[p + 1] = "json" /\ text[p + 2] = "\n"}
        closes == {q \in 1..Len(text) : q + 1 <= Len(text) /\ text[q] = "\n" /\ text[q + 1] = "fence"}
        starts == {p \in opens : \E q \in closes : q >= p + 3}
    IN  IF starts = {} THEN [found |-> FALSE, group1 |-> <<>>]
        ELSE LET p == CHOOSE x \in starts : \A y \in starts : x <= y
                 q == CHOOSE x \in closes : x >= p + 3 /\ \A y \in closes : y <= x
             IN  [found |-> TRUE, group1 |-> SubSeq(text, p + 3, q - 1)]

\* Line 157: the value returned by the except clause for the exception e.
ErrorVerdict(e) ==
    <<"object",
      [related_docs |-> <<"array", <<>>>>,
       excluded_docs |-> <<"array", <<>>>>,
       ai_verification |->
           <<"object", [status |-> <<"string", "error">>,
                        justification |-> <<"string", "AI-shori-chuu-ni-error: " \o e>>]>>]>>

\* Line 112: the value returned when there is no candidate document.
NoCandidatesVerdict ==
    <<"object",
      [related_docs |-> <<"array", <<>>>>,
       excluded_docs |-> <<"array", <<>>>>,
       ai_verification |->
           <<"object", [status |-> <<"string", "handan-funou">>,
                        justification |-> <<"string", "kouho-nashi">>]>>]>>

\* A try block whose except clause catches the decoder's error only.
select_and_verify_try_catches_decode_error(gen) ==
    IF gen.raised
    THEN [pc |-> "raised", result |-> <<>>, exception |-> gen.e]
    ELSE LET m == json_text_match(gen.text)
             parsed == json_loads(IF m.found THEN m.group1 ELSE gen.text)
         IN  IF parsed.ok
             THEN [pc |-> "returned", result |-> parsed.value, exception |-> "none"]
             ELSE [pc |-> "returned", result |-> ErrorVerdict("JSONDecodeError"),
                   exception |-> "JSONDecodeError"]

\* Lines 148-157, given how generate_content_with_retry ended (gen): an
\* exception it raised, or the text it returned.  The fenced part of the
\* text, or else the whole text, is decoded and returned; every exception
\* ends in the except clause.
select_and_verify_try(gen) ==
    IF gen.raised
    THEN [pc |-> "returned", result |-> ErrorVerdict(gen.e), exception |-> gen.e]
    ELSE LET m == json_text_match(gen.text)
             parsed == json_loads(IF m.found THEN m.group1 ELSE gen.text)
         IN  IF parsed.ok
             THEN [pc |-> "returned", result |-> parsed.value, exception |-> "none"]
             ELSE [pc |-> "returned", result |-> ErrorVerdict("JSONDecodeError"),
                   exception |-> "JSONDecodeError"]

\* The message of the exception an attempt ends with: the API's own, or the
\* one of line 46 for a response without text.
AttemptFailures == [api_error |-> "api-error", empty_response |-> "outou-ga-kara"]

\* The verdict object the prompt asks for, with the given quoted status.
VerdictDoc(status) ==
    <<"{", "\n", " ", "\"related_docs\"", ":", " ", "[", "]", ",", "\n",
      " ", "\"excluded_docs\"", ":", " ", "[", "]", ",", "\n",
      " ", "\"ai_verification\"", ":", " ", "{",
      "\"status\"", ":", " ", status, ",", " ", "\"justification\"", ":", " ", "\"riyuu\"",
      "}", "\n", "}">>

\* The JSON documents a model answer is made of.
JsonDocs ==
    {VerdictDoc(status) : status \in {"\"seitou-to-icchi\"", "\"mujun-no-kanousei-ari\"",
                                      "\"handan-funou\"", "\"icchi\""}}
    \cup {<<"{", "}">>,
          <<"[", "\"riyuu\"", ",", " ", "\"riyuu\"", "]">>,
          <<"{", "\"related_docs\"", ":", " ", "[", "]", "}">>,
          <<"{", "\"ai_verification\"", ":", "{", "\"status\"", ":", "\"handan-funou\"", "}", "}">>}

\* Texts that are not JSON: nothing, a sentence, a document cut short.
BrokenDocs ==
    {<<>>, <<"prose", " ", "prose">>, <<"{", "\"related_docs\"", ":", " ", "[">>}

Wrappings == {"alone", "padded", "fenced", "prose", "prose_and_fence"}

\* The text of a model answer: the document d in the wrapping w.
Wrap(w, d) ==
    CASE w = "alone" -> d
      [] w = "padded" -> <<"\n">> \o d \o <<"\n", " ">>
      [] w = "fenced" -> <<"fence", "json", "\n">> \o d \o <<"\n", "fence">>
      [] w = "prose" -> <<"prose", " ">> \o d \o <<"\n", "prose">>
      [] OTHER -> <<"prose", "\n", "fence", "json", "\n">> \o d \o <<"\n", "fence", "\n", "prose">>

NotAsked == [kind |-> "none", wrapping |-> "none", doc |-> <<>>]

SvInit ==
    /\ sv_pc = "idle"
    /\ attempt = 0
    /\ response_text = <<>>
    /\ sv_result = <<>>
    /\ sv_given = NotAsked
    /\ sv_exception = "none"

\* select_and_verify_docs_with_ai_async is called: without candidates it
\* returns at once; with candidates it builds the prompt and enters
\* generate_content_with_retry.
SvCall(has_candidates) ==
    /\ sv_pc = "idle"
    /\ IF has_candidates
       THEN /\ sv_pc' = "calling"
            /\ UNCHANGED sv_result
       ELSE /\ sv_pc' = "returned"
            /\ sv_result' = NoCandidatesVerdict
    /\ UNCHANGED <<attempt, response_text, sv_given, sv_exception>>
    /\ UNCHANGED notSv

\* An attempt of generate_content_with_retry ends with an exception (the
\* call raised, or the response had no text): the loop goes on, or at the
\* last attempt the exception leaves it and reaches the caller's try.
SvAttemptFails(kind) ==
    /\ sv_pc = "calling"
    /\ kind \in DOMAIN AttemptFailures
    /\ sv_given' = [kind |-> kind, wrapping |-> "none", doc |-> <<>>]
    /\ IF attempt + 1 = MAX_RETRIES
       THEN LET end == select_and_verify_try([raised |-> TRUE, e |-> AttemptFailures[kind], text |-> <<>>])
            IN  /\ sv_pc' = end.pc
                /\ sv_result' = end.result
                /\ sv_exception' = end.exception
                /\ UNCHANGED attempt
       ELSE /\ attempt' = attempt + 1
            /\ UNCHANGED <<sv_pc, sv_result, sv_exception>>
    /\ UNCHANGED response_text
    /\ UNCHANGED notSv

\* An attempt returns a response with a text: generate_content_with_retry
\* returns it stripped, and the caller decodes it.
SvModelAnswers(w, d) ==
    /\ sv_pc = "calling"
    /\ LET text == Strip(Wrap(w, d))
           end == select_and_verify_try([raised |-> FALSE, e |-> "none", text |-> text])
       IN  /\ response_text' = text
           /\ sv_pc' = end.pc
           /\ sv_result' = end.result
           /\ sv_exception' = end.exception
    /\ sv_given' = [kind |-> "text", wrapping |-> w, doc |-> d]
    /\ UNCHANGED attempt
    /\ UNCHANGED notSv

----------------------------------------------------------------------------
(* preprocess_exam_data.py: translate_explanation_async and the loop of    *)
(* generate_content_with_retry it runs, followed as one call.  Texts are   *)
(* token sequences; "(kaisetsu-nashi)" stands for （解説なし） and           *)
(* "(honyaku-shippai)" for （翻訳失敗）.                                     *)

\* The explanations of a question: none, or a text.
Explanations == {<<>>, <<"Explanation">>, <<"Explanation", "\n", "more">>, <<"(honyaku-shippai)">>}

\* response.text of a response that has a text.
ResponseTexts == {<<>>, <<"yaku">>, <<"\n", "yaku", " ", "yaku", "\n">>}

TrInit ==
    /\ tr_pc = "idle"
    /\ tr_explanation = <<>>
    /\ tr_result = <<>>
    /\ tr_attempt = 0
    /\ tr_calls = <<>>

\* translate_explanation_async is called: without an explanation it returns
\* at once; with one it builds the prompt and enters
\* generate_content_with_retry with the default retries = MAX_RETRIES.
TrCall(explanation) ==
    /\ tr_pc = "idle"
    /\ tr_explanation' = explanation
    /\ IF explanation = <<>>
       THEN /\ tr_pc' = "returned"
            /\ tr_result' = <<"(kaisetsu-nashi)">>
       ELSE /\ tr_pc' = "calling"
            /\ UNCHANGED tr_result
    /\ UNCHANGED <<tr_attempt, tr_calls>>
    /\ UNCHANGED notTr

\* A loop that makes one call more before it gives up.
TrAttemptFailsAfterOneMoreCall(kind) ==
    /\ tr_pc = "calling"
    /\ kind \in DOMAIN AttemptFailures
    /\ tr_calls' = Append(tr_calls, [kind |-> kind, text |-> <<>>])
    /\ IF tr_attempt = MAX_RETRIES
       THEN /\ tr_pc' = "returned"
            /\ tr_result' = <<"(honyaku-shippai)", "\n">> \o tr_explanation
            /\ UNCHANGED tr_attempt
       ELSE /\ tr_attempt' = tr_attempt + 1
            /\ UNCHANGED <<tr_pc, tr_result>>
    /\ UNCHANGED tr_explanation
    /\ UNCHANGED notTr

\* An attempt of generate_content_with_retry ends with an exception (the
\* call raised, or the response was empty or had no text): the loop goes
\* on, or at the last attempt the exception leaves it and the except clause
\* of translate_explanation_async returns the fallback text.
TrAttemptFails(kind) ==
    /\ tr_pc = "calling"
    /\ kind \in DOMAIN AttemptFailures
    /\ tr_calls' = Append(tr_calls, [kind |-> kind, text |-> <<>>])
    /\ IF tr_attempt + 1 = MAX_RETRIES
       THEN /\ tr_pc' = "returned"
            /\ tr_result' = <<"(honyaku-shippai)", "\n">> \o tr_explanation
            /\ UNCHANGED tr_attempt
       ELSE /\ tr_attempt' = tr_attempt + 1
            /\ UNCHANGED <<tr_pc, tr_result>>
    /\ UNCHANGED tr_explanation
    /\ UNCHANGED notTr

\* An attempt returns a response with a text: generate_content_with_retry
\* returns it stripped, and translate_explanation_async returns that.
TrModelAnswers(text) ==
    /\ tr_pc = "calling"
    /\ tr_calls' = Append(tr_calls, [kind |-> "text", text |-> text])
    /\ tr_result' = Strip(text)
    /\ tr_pc' = "returned"
    /\ UNCHANGED <<tr_explanation, tr_attempt>>
    /\ UNCHANGED notTr

----------------------------------------------------------------------------
(* vectorize_documents.py: the main block from vectorize_chunks on, over   *)
(* the chunks split_documents_into_chunks returned.  A file on disk is     *)
(* <<>> while it does not exist, and else <<its list>>.                    *)

\* Number of chunks the documents are split into.
NumDocChunks == 3

\* batch_size of vectorize_chunks (100 in the source), scaled to the number
\* of chunks followed.
batch_size == 2

\* The chunks of a run, in the order split_documents_into_chunks built them.
doc_chunks == [i \in 1..NumDocChunks |-> [text |-> "chunk" \o ToString(i), source |-> "url"]]

\* The vector text-embedding-004 gives for a text, and the value None.
embedding(text) == [embedding_of |-> text]
None == [embedding_of |-> "None"]

\* simple_tokenizer of create_and_save_bm25_index on the text of a chunk.
bm25_tokenizer(text) == [tokens_of |-> text]

VzInit ==
    /\ vz_pc = "idle"
    /\ vz_outcome = "none"
    /\ vz_i = 0
    /\ vz_vectors = <<>>
    /\ vz_valid = [vectors |-> <<>>, chunks |-> <<>>]
    /\ bm25_index_file = <<>>
    /\ faiss_index_file = <<>>
    /\ text_chunks_file = <<>>

\* The main block starts: the documents are loaded and split, and
\* vectorize_chunks reaches its loop over the batches.
VzStart ==
    /\ vz_pc = "idle"
    /\ vz_pc' = "embedding"
    /\ vz_outcome' = "none"
    /\ vz_i' = 0
    /\ vz_vectors' = <<>>
    /\ vz_valid' = [vectors |-> <<>>, chunks |-> <<>>]
    /\ UNCHANGED <<bm25_index_file, faiss_index_file, text_chunks_file>>
    /\ UNCHANGED notVz

\* The texts of the batch that starts after the first i chunks.
batch_texts(i) ==
    [k \in 1..(IF i + batch_size <= Len(doc_chunks) THEN batch_size ELSE Len(doc_chunks) - i) |->
        doc_chunks[i + k].text]

\* A turn of the loop that adds nothing to vectors when the call raises.
VzBatchWithoutNones(succeeds) ==
    /\ vz_pc = "embedding"
    /\ vz_i < Len(doc_chunks)
    /\ vz_i' = vz_i + batch_size
    /\ LET texts == batch_texts(vz_i)
       IN  vz_vectors' = vz_vectors \o
               (IF succeeds THEN [k \in 1..Len(texts) |-> embedding(texts[k])] ELSE <<>>)
    /\ UNCHANGED <<vz_pc, vz_outcome, vz_valid, bm25_index_file, faiss_index_file, text_chunks_file>>
    /\ UNCHANGED notVz

\* One turn of the loop over the batches: embed_content returns one vector
\* per text of the batch, or raises and the except clause adds one None per
\* text.
VzBatch(succeeds) ==
    /\ vz_pc = "embedding"
    /\ vz_i < Len(doc_chunks)
    /\ vz_i' = vz_i + batch_size
    /\ LET texts == batch_texts(vz_i)
       IN  vz_vectors' = vz_vectors \o
               [k \in 1..Len(texts) |-> IF succeeds THEN embedding(texts[k]) ELSE None]
    /\ UNCHANGED <<vz_pc, vz_outcome, vz_valid, bm25_index_file, faiss_index_file, text_chunks_file>>
    /\ UNCHANGED notVz

\* The loop is over: the pairs of zip(chunks, vectors) with a vector are
\* kept; vectorize_chunks returns them, or (None, None) and the main block
\* ends without writing.
VzLoopEnds ==
    /\ vz_pc = "embedding"
    /\ vz_i >= Len(doc_chunks)
    /\ LET n == IF Len(doc_chunks) < Len(vz_vectors) THEN Len(doc_chunks) ELSE Len(vz_vectors)
           kept == {k \in 1..n : vz_vectors[k] # None}
           pick(list) == SelectSeq([k \in 1..n |-> <<k, list[k]>>], LAMBDA p : p[1] \in kept)
           valid_vectors == [k \in 1..Len(pick(vz_vectors)) |-> pick(vz_vectors)[k][2]]
           valid_chunks == [k \in 1..Len(pick(doc_chunks)) |-> pick(doc_chunks)[k][2]]
       IN  IF valid_vectors = <<>>
           THEN /\ vz_pc' = "idle"
                /\ vz_outcome' = "no_vectors"
                /\ UNCHANGED vz_valid
           ELSE /\ vz_pc' = "writing_bm25"
                /\ vz_valid' = [vectors |-> valid_vectors, chunks |-> valid_chunks]
                /\ UNCHANGED vz_outcome
    /\ UNCHANGED <<vz_i, vz_vectors, bm25_index_file, faiss_index_file, text_chunks_file>>
    /\ UNCHANGED notVz

\* create_and_save_bm25_index(valid_chunks, BM25_INDEX_FILE).
VzWriteBm25 ==
    /\ vz_pc = "writing_bm25"
    /\ bm25_index_file' =
           <<[k \in 1..Len(vz_valid.chunks) |-> bm25_tokenizer(vz_valid.chunks[k].text)]>>
    /\ vz_pc' = "writing_faiss"
    /\ UNCHANGED <<vz_outcome, vz_i, vz_vectors, vz_valid, faiss_index_file, text_chunks_file>>
    /\ UNCHANGED notVz

\* create_and_save_faiss_index(vectors, FAISS_INDEX_FILE): the index is
\* built and written and the function returns True, or building or writing
\* it raises and the exception ends the script.
VzWriteFaiss(raises) ==
    /\ vz_pc = "writing_faiss"
    /\ IF raises
       THEN /\ vz_pc' = "idle"
            /\ vz_outcome' = "raised"
            /\ UNCHANGED faiss_index_file
       ELSE /\ faiss_index_file' = <<vz_valid.vectors>>
            /\ vz_pc' = "saving_chunks"
            /\ UNCHANGED vz_outcome
    /\ UNCHANGED <<vz_i, vz_vectors, vz_valid, bm25_index_file, text_chunks_file>>
    /\ UNCHANGED notVz

\* save_chunks(valid_chunks, TEXT_CHUNKS_FILE), and the end of the script.
VzSaveChunks ==
    /\ vz_pc = "saving_chunks"
    /\ text_chunks_file' = <<vz_valid.chunks>>
    /\ vz_pc' = "idle"
    /\ vz_outcome' = "completed"
    /\ UNCHANGED <<vz_i, vz_vectors, vz_valid, bm25_index_file, faiss_index_file>>
    /\ UNCHANGED notVz

----------------------------------------------------------------------------
(* merge_glossaries.py: main, followed as one run over two input files.    *)

\* Largest number of entries in an input file.
MaxEntries == 2

\* INPUT_FILES: the number of files main reads, in order.
NumInputFiles == 2

\* The values of en_term in the input files; "" stands for an empty en_term
\* and for an entry without the key (term_entry.get('en_term', '')).
EnTerms == {"", "Data", "data", "Lake"}

\* str.lower() on the values of en_term.
lower(term) ==
    CASE term = "Data" -> "data"
      [] term = "Lake" -> "lake"
      [] OTHER -> term

\* The order of Python's str comparison on the values of en_term (code
\* points: upper case before lower case).
CodePointRank(term) ==
    CASE term = "" -> 0
      [] term = "Data" -> 1
      [] term = "Lake" -> 2
      [] term = "data" -> 3
      [] OTHER -> 4

\* What yaml.safe_load gives for file number f holding the en_terms given:
\* a list of entries; ja_term tells the entries of the input apart.
GlossaryList(f, terms) ==
    [kind |-> "list",
     data |-> [k \in 1..Len(terms) |-> [en_term |-> terms[k], ja_term |-> 10 * f + k]]]

MissingFile == [kind |-> "missing", data |-> <<>>]

\* A file whose document is not a list.
NotAList == [kind |-> "not_a_list", data |-> <<>>]

\* The sequences over S of length 0..n.
SeqsUpTo(S, n) == UNION {[1..m -> S] : m \in 0..n}

\* The contents file number f can have.
GlossaryFiles(f) ==
    {MissingFile, NotAList} \cup {GlossaryList(f, terms) : terms \in SeqsUpTo(EnTerms, MaxEntries)}

NoMasterGlossary == [exists |-> FALSE, terms |-> <<>>]

MgInit ==
    /\ glossary_files = [f \in 1..NumInputFiles |-> MissingFile]
    /\ mg_pc = "idle"
    /\ mg_file = 1
    /\ merged_terms = <<>>
    /\ seen_en_terms = {}
    /\ master_glossary = NoMasterGlossary

\* main starts over some input files.
MgStart ==
    /\ mg_pc = "idle"
    /\ glossary_files' \in [1..NumInputFiles -> UNION {GlossaryFiles(f) : f \in 1..NumInputFiles}]
    /\ \A f \in 1..NumInputFiles : glossary_files'[f] \in GlossaryFiles(f)
    /\ mg_pc' = "merging"
    /\ mg_file' = 1
    /\ merged_terms' = <<>>
    /\ seen_en_terms' = {}
    /\ UNCHANGED master_glossary
    /\ UNCHANGED notMg

\* A loop body that does not record the en_term it has kept.
merge_entry_forgets_seen(acc, term_entry) ==
    LET en_term_lower == lower(term_entry.en_term)
    IN  IF en_term_lower # "" /\ en_term_lower \notin acc.seen_en_terms
        THEN [merged_terms |-> Append(acc.merged_terms, term_entry),
              seen_en_terms |-> acc.seen_en_terms]
        ELSE acc

\* A loop body that lets a later entry take the place of the entry kept for
\* the same lower-cased en_term.
merge_entry_last_wins(acc, term_entry) ==
    LET en_term_lower == lower(term_entry.en_term)
    IN  IF en_term_lower = "" THEN acc
        ELSE IF en_term_lower \notin acc.seen_en_terms
        THEN [merged_terms |-> Append(acc.merged_terms, term_entry),
              seen_en_terms |-> acc.seen_en_terms \cup {en_term_lower}]
        ELSE [merged_terms |-> [k \in 1..Len(acc.merged_terms) |->
                                   IF lower(acc.merged_terms[k].en_term) = en_term_lower
                                   THEN term_entry ELSE acc.merged_terms[k]],
              seen_en_terms |-> acc.seen_en_terms]

\* Lines 35-41: the body of the loop over the entries of one file.
merge_entry(acc, term_entry) ==
    LET en_term_lower == lower(term_entry.en_term)
    IN  IF en_term_lower # "" /\ en_term_lower \notin acc.seen_en_terms
        THEN [merged_terms |-> Append(acc.merged_terms, term_entry),
              seen_en_terms |-> acc.seen_en_terms \cup {en_term_lower}]
        ELSE acc

\* The loop over data[k..], from the locals acc.
RECURSIVE merge_entries(_, _, _)
merge_entries(acc, data, k) ==
    IF k > Len(data) THEN acc
    ELSE merge_entries(merge_entry(acc, data[k]), data, k + 1)

\* One turn of the loop over INPUT_FILES: a missing file and a file that is
\* not a list are skipped, the entries of a list are merged.
MgReadFile ==
    /\ mg_pc = "merging"
    /\ mg_file <= NumInputFiles
    /\ LET file == glossary_files[mg_file]
           acc == IF file.kind = "list"
                  THEN merge_entries([merged_terms |-> merged_terms,
                                      seen_en_terms |-> seen_en_terms], file.data, 1)
                  ELSE [merged_terms |-> merged_terms, seen_en_terms |-> seen_en_terms]
       IN  /\ merged_terms' = acc.merged_terms
           /\ seen_en_terms' = acc.seen_en_terms
    /\ mg_file' = mg_file + 1
    /\ UNCHANGED <<glossary_files, mg_pc, master_glossary>>
    /\ UNCHANGED notMg

\* sorted(list, key=en_term): a stable sort, by insertion from the left.
RECURSIVE sorted_by_en_term(_)
sorted_by_en_term(list) ==
    IF list = <<>> THEN <<>>
    ELSE LET rest == sorted_by_en_term(SubSeq(list, 1, Len(list) - 1))
             x == list[Len(list)]
             before == SelectSeq(rest, LAMBDA e : CodePointRank(e.en_term) <= CodePointRank(x.en_term))
             after == SelectSeq(rest, LAMBDA e : CodePointRank(e.en_term) > CodePointRank(x.en_term))
         IN  before \o <<x>> \o after

\* Lines 45-53: the merged list is written, sorted, unless it is empty.
MgSave ==
    /\ mg_pc = "merging"
    /\ mg_file > NumInputFiles
    /\ master_glossary' =
           IF merged_terms # <<>>
           THEN [exists |-> TRUE, terms |-> sorted_by_en_term(merged_terms)]
           ELSE master_glossary
    /\ mg_pc' = "done"
    /\ UNCHANGED <<glossary_files, mg_file, merged_terms, seen_en_terms>>
    /\ UNCHANGED notMg

----------------------------------------------------------------------------
(* streamlit_app.py: properties of the quiz front end *)

\* The step just taken was a submission whose number of ticked boxes is not
\* the number of correct answers of the question shown.
RejectedSubmitStep ==
    /\ last'.op = "submit"
    /\ Cardinality(last'.sel) # num_correct_answers(last'.q)

\* C5: a submission with the wrong number of selections leaves the whole
\* session state unchanged (page, history, current_index, answer_submitted,
\* user_answers, answered_ids, wrong_answer_ids, is_review_mode,
\* review_history, all_user_answers).
C5_RejectedSubmitLeavesSessionUnchanged ==
    [][RejectedSubmitStep => UNCHANGED quizState]_vars

\* C6: a submission with fewer or more selections than the required count is
\* rejected: answered_ids and wrong_answer_ids are not modified and
\* answer_submitted stays false.
C6_RejectedSubmitKeepsAnsweredSets ==
    [][RejectedSubmitStep =>
          /\ answered_ids' = answered_ids
          /\ wrong_answer_ids' = wrong_answer_ids
          /\ ~answer_submitted
          /\ ~answer_submitted']_vars

\* C6 happens: a multi-answer question was submitted with too many boxes, and
\* a question that is not in answered_ids is still shown unanswered.
C6_Witness ==
    /\ last.op = "submit"
    /\ is_multiple_choice(last.q)
    /\ Cardinality(last.sel) > num_correct_answers(last.q)
    /\ last.q \notin answered_ids
    /\ ~answer_submitted

\* C7: after a submission with exactly the required number of selections,
\* answer_submitted is true, the question is in answered_ids, and it is in
\* wrong_answer_ids exactly when the selected set differs from the set of
\* correct-answer keys.
C7_AcceptedSubmitTogglesWrong ==
    (last.op = "submit" /\ Cardinality(last.sel) = num_correct_answers(last.q)) =>
        /\ answer_submitted
        /\ last.q \in answered_ids
        /\ (last.q \in wrong_answer_ids) <=> (last.sel # Range(correct_answers(last.q)))

\* C7 happens: a question under review (so it was wrong before) was submitted
\* with the correct set and left wrong_answer_ids.
C7_Witness ==
    /\ last.op = "submit"
    /\ Cardinality(last.sel) = num_correct_answers(last.q)
    /\ is_review_mode
    /\ last.q \in Range(review_history)
    /\ last.sel = Range(correct_answers(last.q))
    /\ last.q \notin wrong_answer_ids

\* C8: after go_to_question_by_id(q) for a question with an accepted
\* submission S, user_answers is S.
C8_JumpRestoresSubmittedAnswer ==
    (last.op = "jump" /\ submitted[last.q] # <<>>) => user_answers = submitted[last.q]

\* C9: whenever page is 'quiz' the current index lies inside the active list
\* and get_current_question returns a question.
C9_CurrentIndexInActiveList ==
    page = "quiz" =>
        /\ 0 <= current_index
        /\ current_index < Len(active_list)
        /\ get_current_question # NoQuestion

\* C9 happens: review mode entered from a later position of the history, with
\* the review list shorter than the history.
C9_Witness ==
    /\ page = "quiz"
    /\ is_review_mode
    /\ last.op = "review"
    /\ Len(review_history) < Len(history)
    /\ current_index = 0

\* C10: go_to_next_question called outside review mode at the last position
\* of a history that holds every question id raises nothing and leaves
\* history and current_index unchanged; the current question stays valid.
C10_NextAtEndKeepsPosition ==
    [][(/\ last'.op = "call_next"
        /\ ~is_review_mode
        /\ current_index = Len(history) - 1
        /\ Range(history) = QuestionIds) =>
          /\ quiz_exc' = "none"
          /\ history' = history
          /\ current_index' = current_index
          /\ get_current_question' # NoQuestion]_vars

\* C10 happens: the call was made at the last position of a complete history.
C10_Witness ==
    /\ last.op = "call_next"
    /\ ~is_review_mode
    /\ Range(history) = QuestionIds
    /\ last.at = Len(history) - 1
    /\ current_index = last.at
    /\ quiz_exc = "none"

\* C27: after any sequence of quiz operations wrong_answer_ids is a subset
\* of answered_ids, answered_ids is a subset of the ids in history, and
\* history never holds the same id twice.
C27_WrongWithinAnsweredWithinHistory ==
    /\ wrong_answer_ids \subseteq answered_ids
    /\ answered_ids \subseteq Range(history)
    /\ \A i, j \in 1..Len(history) : i # j => history[i] # history[j]

\* C27 happens: in review mode a question was answered wrongly again, while
\* another visited question is answered and right and the history holds
\* every question.
C27_Witness ==
    /\ is_review_mode
    /\ last.op = "submit"
    /\ last.q \in wrong_answer_ids
    /\ wrong_answer_ids # answered_ids
    /\ Range(history) = QuestionIds
    /\ Len(history) = NumQuestions

\* C28: after any sequence of quiz operations answer_submitted is true only
\* if the current question is in answered_ids: the result view is never
\* shown for a question the user has not answered.
C28_ResultViewOnlyForAnswered ==
    (page = "quiz" /\ answer_submitted) => get_current_question \in answered_ids

----------------------------------------------------------------------------
(* analyze_undecided_questions.py: properties of the report scripts *)

\* C3: in analyze_undecided_questions.main no task handed to gather raises
\* (each ends with a string result), so the run does not end by an exception
\* before the step that appends the report sections.
C3_NoTaskRaises ==
    ana_script = "new" =>
        /\ \A i \in DOMAIN ana_tasks : ana_tasks[i].pc # "raised"
        /\ ana_outcome # "raised"

\* C4: on a run of analyze_undecided_questions.main, every question whose
\* section an earlier run wrote into the report is in
\* get_already_analyzed_ids(report) and is not handed to the model again.
C4_WrittenSectionsAreSkipped ==
    (ana_script = "new" /\ ana_pc = "gathering") =>
        \A id \in ana_written :
            /\ id \in get_already_analyzed_ids(report_file)
            /\ id \notin Range(questions_to_analyze)

\* Tasks inside the semaphore-guarded section: sleeping before the dispatch,
\* or calling analyze_with_gemini.
InsideSection == {i \in DOMAIN ana_tasks : ana_tasks[i].pc \in {"sleeping", "calling"}}

\* C23: in both report scripts at most MAX_CONCURRENT_TASKS (3) tasks are
\* inside the semaphore-guarded section at every moment, and every
\* submitted task eventually enters it: no run ends while a task it
\* submitted has not entered the section, and whatever the moment, a later
\* moment comes at which no submitted task is still outside the section.
C23_BoundedSectionAndEveryTaskEnters ==
    /\ [](Cardinality(InsideSection) <= ANALYZE_MAX_CONCURRENT_TASKS)
    /\ [][(ana_pc = "gathering" /\ ana_pc' = "idle") =>
              \A i \in DOMAIN ana_tasks : ana_tasks[i].pc # "created"]_vars
    /\ []<>(\A i \in DOMAIN ana_tasks : ana_tasks[i].pc # "created")

\* C23 happens: a task that had to wait for a permit has entered the section
\* after another task left it, and three tasks are inside.
C23_Witness ==
    /\ ana_pc = "gathering"
    /\ Cardinality(InsideSection) = ANALYZE_MAX_CONCURRENT_TASKS
    /\ semaphore = 0
    /\ \E i \in DOMAIN ana_tasks : ana_tasks[i].pc = "done"
    /\ \E i \in InsideSection : i > ANALYZE_MAX_CONCURRENT_TASKS

----------------------------------------------------------------------------
(* preprocess_exam_data.py: properties of main_async *)

\* Tasks that have started process_single_question_async and not finished.
InProgress == {i \in DOMAIN pre_tasks : pre_tasks[i].pc \in {"translating", "searching", "verifying"}}

\* C1: a question whose saved record carries the error verdict is submitted
\* again on the next run of main_async: it is in questions_to_process.
C1_ErrorVerdictIsRetried ==
    (pre_pc = "gathering" \/ pre_outcome = "returned_early") =>
        \A k \in 1..Len(output_file.records) :
            output_file.records[k].status = "error" =>
                output_file.records[k].question_id \in
                    {questions_to_process[j].question_id : j \in 1..Len(questions_to_process)}

\* C2: at every moment of a run of main_async at most MAX_CONCURRENT_TASKS
\* questions are in progress at once.
C2_AtMostMaxConcurrentInProgress ==
    Cardinality(InProgress) <= MAX_CONCURRENT_TASKS

\* The ids of the records or questions of a list.
IdsOf(list) == {list[k].question_id : k \in 1..Len(list)}

\* C18: whatever order the tasks complete in, every result stored in
\* processed_questions_dict under key k is the record built from the input
\* question whose question_id is k.
C18_StoredUnderOwnQuestionId ==
    \A k \in DOMAIN processed_questions_dict :
        /\ processed_questions_dict[k].question_id = k
        /\ \E j \in 1..Len(exam_questions) :
               /\ exam_questions[j].question_id = k
               /\ processed_questions_dict[k].question_text = exam_questions[j].question_text

\* C18 happens: a run with three or more tasks ended, the task of the first
\* question returned None and the results of later ones were stored.
C18_Witness ==
    /\ pre_outcome = "completed"
    /\ Len(questions_to_process) >= 3
    /\ questions_to_process[1].question_id \notin DOMAIN processed_questions_dict
    /\ questions_to_process[2].question_id \in DOMAIN processed_questions_dict
    /\ questions_to_process[3].question_id \in DOMAIN processed_questions_dict

\* Every question id of the exam file has a record in the output file.
AllIdsProcessed ==
    /\ output_file.exists
    /\ IdsOf(exam_questions) \subseteq IdsOf(output_file.records)

\* C19: when every question_id of the exam file is already in the output
\* file, a run of main_async makes no generative or embedding call and does
\* not write the output file.
C19_NothingToDoMeansNoCallNoWrite ==
    [][AllIdsProcessed => (pre_effects' = {} /\ output_file' = output_file)]_vars

\* C19 happens: a run found every id processed and returned early.
C19_Witness ==
    /\ AllIdsProcessed
    /\ pre_outcome = "returned_early"
    /\ questions_to_process = <<>>
    /\ pre_pc = "idle"
    /\ pre_effects = {}

\* C20: a run never removes or alters a record that was in the output file:
\* what is written is the old records unchanged, plus new records only for
\* ids that had none.
C20_ExistingRecordsAreKept ==
    [][/\ \A k \in 1..Len(output_file.records) :
              output_file.records[k] \in Range(output_file'.records)
       /\ \A k \in 1..Len(output_file'.records) :
              output_file'.records[k] \notin Range(output_file.records) =>
                  output_file'.records[k].question_id \notin IdsOf(output_file.records)]_vars

\* C20 happens: the last run wrote a file that holds a record from before
\* the run (with the error verdict) next to a record the run added.
C20_Witness ==
    /\ pre_outcome = "completed"
    /\ "write" \in pre_effects
    /\ \E k \in 1..Len(output_file.records) :
           /\ output_file.records[k].question_id \notin IdsOf(questions_to_process)
           /\ output_file.records[k].status = "error"
    /\ \E k \in 1..Len(output_file.records) :
           output_file.records[k].question_id \in IdsOf(questions_to_process)

\* C21: a question whose task returned None is left out of the saved
\* output, the results of all other questions of the same run are saved,
\* and a question of the last run that has no record in the output file is
\* again in questions_to_process when the next run starts.
C21_FailedQuestionIsSkippedAndRetried ==
    [][/\ (pre_pc = "gathering" /\ pre_pc' = "idle") =>
              \A i \in DOMAIN pre_tasks :
                  IF pre_tasks[i].result = NoResult
                  THEN pre_tasks[i].question.question_id \notin IdsOf(output_file'.records)
                  ELSE pre_tasks[i].result \in Range(output_file'.records)
       /\ (pre_pc = "idle" /\ pre_outcome = "completed" /\ pre_outcome' # pre_outcome) =>
              \A k \in 1..Len(questions_to_process) :
                  questions_to_process[k].question_id \notin IdsOf(output_file.records) =>
                      questions_to_process[k] \in Range(questions_to_process')]_vars

\* C21 happens: the run before saved the records of questions 1 and 3 while
\* the task of question 2 returned None, and the run that has now started
\* processes question 2 alone.
C21_Witness ==
    /\ pre_pc = "gathering"
    /\ {1, 3} \subseteq IdsOf(output_file.records)
    /\ IdsOf(questions_to_process) = {2}
    /\ Len(pre_tasks) = 1

----------------------------------------------------------------------------
(* preprocess_exam_data.py: properties of hybrid_search_async *)

\* The positions of all whose text occurs at no earlier position.
FirstOccurrences(all) ==
    {p \in 1..Len(all) : \A q \in 1..(p - 1) : all[q].text # all[p].text}

\* r is the list all without the chunks whose text appeared earlier, cut
\* after k elements: r[j] is the chunk at the j-th first occurrence.
IsFirstKDistinctByText(r, all, k) ==
    LET firsts == FirstOccurrences(all)
        nth(j) == CHOOSE p \in firsts : Cardinality({q \in firsts : q < p}) = j - 1
    IN  /\ Len(r) = (IF k < Cardinality(firsts) THEN k ELSE Cardinality(firsts))
        /\ \A j \in 1..Len(r) : r[j] = all[nth(j)]

Texts(s) == {s[i].text : i \in 1..Len(s)}

\* C11: for every pair of vector and keyword candidate lists (both at
\* capacity, or the vector list empty), the list hybrid_search_async returns
\* has at most final_top_k elements and no two chunks with the same text.
C11_AtMostKDistinctTexts ==
    hs_pc = "returned" =>
        /\ Len(hs_result) <= hs_args.final_top_k
        /\ \A i, j \in 1..Len(hs_result) : i # j => hs_result[i].text # hs_result[j].text

\* C11 happens: both lists are at capacity, the vector list itself holds
\* two chunks with one text, the lists share a text, and the result is full.
C11_Witness ==
    /\ hs_pc = "returned"
    /\ hs_failed = "none"
    /\ hs_args.final_top_k >= 2
    /\ Len(vector_candidates) = hs_args.final_top_k
    /\ Len(bm25_candidates) = hs_args.bm25_top_n
    /\ hs_args.bm25_top_n = MaxTopN
    /\ vector_candidates[1].text = vector_candidates[2].text
    /\ Texts(vector_candidates) \cap Texts(bm25_candidates) # {}
    /\ Len(hs_result) = hs_args.final_top_k

\* C12: the result is the first final_top_k elements of (vector candidates
\* in index-result order, then keyword candidates in descending-score order)
\* without the chunks whose text appeared earlier in that sequence; so every
\* chunk taken from the vector list precedes every chunk taken only from the
\* keyword list.
C12_MergeIsVectorThenKeyword ==
    hs_pc = "returned" =>
        /\ \A a, b \in 1..Len(bm25_top_indices) :
               a < b => bm25_scores[bm25_top_indices[a]] >= bm25_scores[bm25_top_indices[b]]
        /\ \A i \in 1..NumChunks :
               i \notin Range(bm25_top_indices) =>
                   \A a \in 1..Len(bm25_top_indices) : bm25_scores[bm25_top_indices[a]] >= bm25_scores[i]
        /\ IsFirstKDistinctByText(hs_result, vector_candidates \o bm25_candidates, hs_args.final_top_k)
        /\ \A i, j \in 1..Len(hs_result) :
               (i < j /\ hs_result[j].text \in Texts(vector_candidates)) =>
                   hs_result[i].text \in Texts(vector_candidates)

\* C12 happens: the result holds a vector chunk followed by a chunk that only
\* the keyword list has, and a keyword chunk was skipped because the vector
\* list had its text.
C12_Witness ==
    /\ hs_pc = "returned"
    /\ hs_failed = "none"
    /\ Len(hs_result) = 2
    /\ hs_result[1] = vector_candidates[1]
    /\ hs_result[2].text \notin Texts(vector_candidates)
    /\ bm25_candidates[1].text \in Texts(vector_candidates)
    /\ bm25_scores[bm25_top_indices[1]] > bm25_scores[bm25_top_indices[Len(bm25_top_indices)]]

\* C13: when the embedding call or the index search fails, no exception
\* leaves hybrid_search_async and the result is the keyword candidates in
\* score order, deduplicated by text and cut to final_top_k.
C13_VectorFailureFallsBackToKeyword ==
    hs_failed # "none" =>
        /\ hs_pc = "returned"
        /\ IsFirstKDistinctByText(hs_result, bm25_candidates, hs_args.final_top_k)

\* C13 happens: the embedding call failed, the keyword list held two chunks
\* with one text, and the result is full.
C13_Witness ==
    /\ hs_pc = "returned"
    /\ hs_failed = "embed_content_async"
    /\ vector_candidates = <<>>
    /\ Len(bm25_candidates) = 3
    /\ Cardinality(Texts(bm25_candidates)) = 2
    /\ Len(hs_result) = 2
    /\ hs_args.final_top_k = 2

\* C29: keyword candidates only fill a shortfall: when the vector search
\* succeeds and returns final_top_k chunks with pairwise distinct text, the
\* result is exactly the vector candidates in their order, whatever the
\* keyword scores are.
C29_KeywordOnlyFillsShortfall ==
    (/\ hs_pc = "returned"
     /\ hs_failed = "none"
     /\ Len(vector_candidates) = hs_args.final_top_k
     /\ Cardinality(Texts(vector_candidates)) = hs_args.final_top_k) =>
        hs_result = vector_candidates

\* C29 happens: two vector chunks with distinct texts were returned although
\* the best keyword candidate has a text of its own and a higher score than
\* the chunks the index returned.
C29_Witness ==
    /\ hs_pc = "returned"
    /\ hs_failed = "none"
    /\ hs_args.final_top_k = 2
    /\ Cardinality(Texts(vector_candidates)) = 2
    /\ hs_result = vector_candidates
    /\ bm25_candidates[1].text \notin Texts(vector_candidates)
    /\ \A i \in 1..2 : bm25_scores[faiss_top_indices[i]] < bm25_scores[bm25_top_indices[1]]

----------------------------------------------------------------------------
(* preprocess_exam_data.py: properties of                                  *)
(* select_and_verify_docs_with_ai_async                                    *)

\* The value v is an object whose ai_verification is an object with a status
\* and a justification.
HasVerdict(v) ==
    /\ v # <<>>
    /\ v[1] = "object"
    /\ "ai_verification" \in DOMAIN v[2]
    /\ v[2]["ai_verification"][1] = "object"
    /\ {"status", "justification"} \subseteq DOMAIN v[2]["ai_verification"][2]

\* The value v is the sentinel: no related document, status 'エラー', and a
\* justification that ends with the message e.
IsErrorSentinelFor(v, e) ==
    /\ HasVerdict(v)
    /\ "related_docs" \in DOMAIN v[2]
    /\ v[2]["related_docs"] = <<"array", <<>>>>
    /\ v[2]["ai_verification"][2]["status"] = <<"string", "error">>
    /\ v[2]["ai_verification"][2]["justification"] = <<"string", "AI-shori-chuu-ni-error: " \o e>>

\* C14: select_and_verify_docs_with_ai_async never raises: when the model
\* call fails after its retries, returns an empty response, or returns text
\* that is not valid JSON, it returns the sentinel with related_docs = [],
\* status 'エラー' and a justification carrying the exception message.
C14_FailuresReturnErrorSentinel ==
    /\ sv_pc # "raised"
    /\ (sv_pc = "returned" /\ sv_given.kind \in {"api_error", "empty_response"}) =>
           IsErrorSentinelFor(sv_result, AttemptFailures[sv_given.kind])
    /\ (sv_pc = "returned" /\ sv_given.kind = "text" /\ sv_given.doc \in BrokenDocs) =>
           /\ sv_exception # "none"
           /\ IsErrorSentinelFor(sv_result, sv_exception)

\* C14 happens: the last of MAX_RETRIES attempts got a response without text
\* and the call returned the sentinel.
C14_Witness ==
    /\ sv_pc = "returned"
    /\ attempt + 1 = MAX_RETRIES
    /\ sv_given.kind = "empty_response"
    /\ sv_exception = "outou-ga-kara"
    /\ IsErrorSentinelFor(sv_result, "outou-ga-kara")

\* C15: when the response parses as JSON but lacks the expected keys (no
\* ai_verification, no status or justification in it, or not an object), the
\* function returns the error sentinel instead of the parsed value: every
\* returned value has an ai_verification with a status and a justification.
C15_ReturnedValueHasVerdictKeys ==
    sv_pc = "returned" => HasVerdict(sv_result)

\* C16: for every model response the verdict status in the returned value is
\* one of the four kinds 正答と一致, 矛盾の可能性あり, 判断不能, エラー.
C16_StatusIsOneOfFourKinds ==
    (sv_pc = "returned" /\ HasVerdict(sv_result)) =>
        sv_result[2]["ai_verification"][2]["status"] \in
            {<<"string", "seitou-to-icchi">>, <<"string", "mujun-no-kanousei-ari">>,
             <<"string", "handan-funou">>, <<"string", "error">>}

\* C17: for every JSON object J, a response that is J alone, J inside a json
\* code fence, or J surrounded by prose makes the function return J.
C17_WrappedJsonParsesToSameObject ==
    (/\ sv_pc = "returned"
     /\ sv_given.kind = "text"
     /\ sv_given.doc \in JsonDocs
     /\ Head(sv_given.doc) = "{"
     /\ sv_given.wrapping \in {"alone", "fenced", "prose"}) =>
        sv_result = json_loads(sv_given.doc).value

----------------------------------------------------------------------------
(* preprocess_exam_data.py: properties of generate_content_with_retry and  *)
(* translate_explanation_async                                             *)

----------------------------------------------------------------------------
(* vectorize_documents.py: properties of the main block *)

\* The three lists are aligned: same length, row i is the embedding of the
\* text of chunk i, and document i is the tokenization of that text.
Aligned(chunk_list, rows, docs) ==
    /\ Len(rows) = Len(chunk_list)
    /\ Len(docs) = Len(chunk_list)
    /\ \A i \in 1..Len(chunk_list) :
           /\ rows[i] = embedding(chunk_list[i].text)
           /\ docs[i] = bm25_tokenizer(chunk_list[i].text)

\* C26: whatever batches fail, the vectors and chunks vectorize_chunks
\* returns are aligned and in the order of the input, and when a run has
\* written the three files, the chunk list, the rows of the dense index and
\* the documents of the keyword index have the same length and order.
C26_WrittenListsAreAligned ==
    /\ Len(vz_valid.vectors) = Len(vz_valid.chunks)
    /\ \A i \in 1..Len(vz_valid.chunks) :
           /\ vz_valid.vectors[i] = embedding(vz_valid.chunks[i].text)
           /\ \A j \in 1..(i - 1) :
                  \E m, n \in 1..Len(doc_chunks) :
                      m < n /\ doc_chunks[m] = vz_valid.chunks[j] /\ doc_chunks[n] = vz_valid.chunks[i]
    /\ vz_outcome = "completed" =>
           Aligned(text_chunks_file[1], faiss_index_file[1], bm25_index_file[1])

\* C26 happens: a run whose first batch failed has written the three files
\* for the chunks of the later batch.
C26_Witness ==
    /\ vz_outcome = "completed"
    /\ vz_vectors[1] = None
    /\ text_chunks_file = <<SubSeq(doc_chunks, batch_size + 1, Len(doc_chunks))>>

\* C30: at the end of any run, also of one in which writing the dense index
\* raised after the keyword index was written, the files that exist all
\* derive from the same chunk list.
C30_FilesDeriveFromSameChunkList ==
    (vz_pc = "idle" /\ bm25_index_file # <<>> /\ faiss_index_file # <<>> /\ text_chunks_file # <<>>) =>
        Aligned(text_chunks_file[1], faiss_index_file[1], bm25_index_file[1])

----------------------------------------------------------------------------
(* merge_glossaries.py: properties of main *)

\* C24: the merged glossary (the list main builds and the file it writes)
\* never contains two entries whose en_term are equal after lower-casing.
C24_NoTwoEntriesWithSameLowerTerm ==
    \A list \in {merged_terms, master_glossary.terms} :
        \A i, j \in 1..Len(list) :
            i # j => lower(list[i].en_term) # lower(list[j].en_term)

\* C24 happens: the inputs held "Data" and "data", and the glossary written
\* holds one entry for them next to an entry for another term.
C24_Witness ==
    /\ mg_pc = "done"
    /\ \E f, g \in 1..NumInputFiles :
           /\ \E k \in 1..Len(glossary_files[f].data) : glossary_files[f].data[k].en_term = "Data"
           /\ \E k \in 1..Len(glossary_files[g].data) : glossary_files[g].data[k].en_term = "data"
    /\ Len(master_glossary.terms) = 2

\* The entries of the input files that are lists, in the order main reads
\* them, from file f on.
RECURSIVE EntriesInReadingOrder(_)
EntriesInReadingOrder(f) ==
    IF f > NumInputFiles THEN <<>>
    ELSE glossary_files[f].data \o EntriesInReadingOrder(f + 1)

\* C25: first occurrence wins: when main has ended, the glossary written
\* holds, for every non-empty lower-cased en_term of the inputs, the first
\* entry with it (files in INPUT_FILES order, entries in file order), as it
\* was in the input, and nothing else.
C25_FirstOccurrenceWins ==
    mg_pc = "done" =>
        LET all == EntriesInReadingOrder(1)
        IN  Range(master_glossary.terms) =
                {all[k] : k \in {n \in 1..Len(all) :
                                    /\ lower(all[n].en_term) # ""
                                    /\ \A m \in 1..(n - 1) :
                                           lower(all[m].en_term) # lower(all[n].en_term)}}

\* C25 happens: the first file holds "Data" and the second holds "data" and
\* another term; the glossary written holds the entry of the first file and
\* not the one of the second for that term.
C25_Witness ==
    /\ mg_pc = "done"
    /\ [en_term |-> "Data", ja_term |-> 11] \in Range(master_glossary.terms)
    /\ [en_term |-> "data", ja_term |-> 21] \in Range(glossary_files[2].data)
    /\ [en_term |-> "Lake", ja_term |-> 22] \in Range(master_glossary.terms)

----------------------------------------------------------------------------
(* Specifications *)

QuizNext ==
    \/ BeginButton
    \/ \E q_id \in QuestionIds : JumpButton(q_id)
    \/ ReviewButton
    \/ \E sel \in SUBSET Range(choice_keys) : SubmitButton(sel)
    \/ PrevButton
    \/ NextButton

\* Every script starts from its own initial state.
Init == QuizInit /\ AnaInit /\ PreInitWith(NumExamQuestions) /\ HsInit /\ SvInit /\ MgInit /\ TrInit /\ VzInit

\* The same, with an exam file of one question more than
\* MAX_CONCURRENT_TASKS.
InitWide == QuizInit /\ AnaInit /\ PreInitWith(MAX_CONCURRENT_TASKS + 1) /\ HsInit /\ SvInit /\ MgInit /\ TrInit /\ VzInit

\* The quiz front end driven through its widgets.
SpecQuiz == Init /\ [][QuizNext]_vars

QuizDirectNext == QuizNext \/ CallNext

\* The quiz front end with go_to_next_question also called directly.
SpecQuizDirect == Init /\ [][QuizDirectNext]_vars

AnaNext ==
    \/ MainStart
    \/ BkMainStart
    \/ \E i \in 1..BK_MAX_QUESTIONS_TO_ANALYZE : TaskAcquire(i)
    \/ \E i \in 1..BK_MAX_QUESTIONS_TO_ANALYZE : TaskWake(i)
    \/ \E i \in 1..BK_MAX_QUESTIONS_TO_ANALYZE, answer \in ModelAnswers : TaskReturn(i, answer)
    \/ \E i \in 1..BK_MAX_QUESTIONS_TO_ANALYZE : TaskCallFails(i)
    \/ GatherEnds

\* The event loop runs every step that is ready (a task that can take a
\* permit, a sleep that is over, a callback of a finished task), and a call
\* of the model ends, with an answer or with an exception.
AnaFairness ==
    /\ WF_vars(\E i \in 1..BK_MAX_QUESTIONS_TO_ANALYZE : TaskAcquire(i))
    /\ WF_vars(\E i \in 1..BK_MAX_QUESTIONS_TO_ANALYZE : TaskWake(i))
    /\ WF_vars(\E i \in 1..BK_MAX_QUESTIONS_TO_ANALYZE :
                  (TaskCallFails(i) \/ \E answer \in ModelAnswers : TaskReturn(i, answer)))
    /\ WF_vars(GatherEnds)

\* Runs of the two report scripts, one after the other, over one report file.
SpecAnalyze == Init /\ [][AnaNext]_vars

\* The same runs under the scheduling of the event loop.
SpecAnalyzeFair == Init /\ [][AnaNext]_vars /\ AnaFairness

PreNext ==
    \/ PreMainStart
    \/ \E i \in 1..(MAX_CONCURRENT_TASKS + 1) : PreTaskStart(i)
    \/ \E i \in 1..(MAX_CONCURRENT_TASKS + 1) : TranslateEnds(i)
    \/ \E i \in 1..(MAX_CONCURRENT_TASKS + 1) : SearchEnds(i)
    \/ \E i \in 1..(MAX_CONCURRENT_TASKS + 1) : UnexpectedException(i)
    \/ \E i \in 1..(MAX_CONCURRENT_TASKS + 1), status \in VerifyOutcomes : VerifyEnds(i, status)
    \/ PreGatherEnds

\* Runs of preprocess_exam_data.main_async, one after the other, over one
\* output file.
SpecPreprocess == Init /\ [][PreNext]_vars

\* The same runs over the larger exam file.
SpecPreprocessWide == InitWide /\ [][PreNext]_vars

HsNext ==
    \/ \E n \in 1..MaxTopN, k \in 1..MaxTopK : HsCall(n, k)
    \/ HsSearchReturns
    \/ \E what \in VectorSearchCalls : HsVectorSearchFails(what)

\* A call of hybrid_search_async over the chunk list, with any arguments.
SpecHybridSearch == Init /\ [][HsNext]_vars

SvNext ==
    \/ \E has_candidates \in BOOLEAN : SvCall(has_candidates)
    \/ \E kind \in DOMAIN AttemptFailures : SvAttemptFails(kind)
    \/ \E w \in Wrappings, d \in JsonDocs \cup BrokenDocs : SvModelAnswers(w, d)

\* A call of select_and_verify_docs_with_ai_async, with any model answers.
SpecVerify == Init /\ [][SvNext]_vars

MgNext ==
    \/ MgStart
    \/ MgReadFile
    \/ MgSave

\* A run of merge_glossaries.main over any input files.
SpecMergeGlossaries == Init /\ [][MgNext]_vars

TrNext ==
    \/ \E explanation \in Explanations : TrCall(explanation)
    \/ \E kind \in DOMAIN AttemptFailures : TrAttemptFails(kind)
    \/ \E text \in ResponseTexts : TrModelAnswers(text)

\* A call of translate_explanation_async, with any outcome of its calls of
\* the model.
SpecTranslate == Init /\ [][TrNext]_vars

VzNext ==
    \/ VzStart
    \/ \E succeeds \in BOOLEAN : VzBatch(succeeds)
    \/ VzLoopEnds
    \/ VzWriteBm25
    \/ \E raises \in BOOLEAN : VzWriteFaiss(raises)
    \/ VzSaveChunks

\* Runs of vectorize_documents.py, one after the other, over the same
\* output files.
SpecVectorize == Init /\ [][VzNext]_vars

====
